---- MODULE Spec2Model ----
(***************************************************************************)
(* Versification engine of the scripture extractor                         *)
(* (attic/baseline/tools/extract_scriptures.py): the loader that resolves  *)
(* canon inheritance (load_versification) and the flattener that expands a *)
(* resolved canon into book units (get_all_books).                         *)
(*                                                                         *)
(* Python dicts are records whose DOMAIN is the set of keys present, so    *)
(* `"k" in d` is  "k" \in DOMAIN d  and d.get(k, v) is Get(d, k, v).       *)
(* Python lists that the code mutates (a definition's `books`) live in     *)
(* `heap` and are held by reference, so that aliasing is observable.       *)
(***************************************************************************)
EXTENDS Integers, Sequences, FiniteSets, TLC

VARIABLES
    files,   \* VERSIFICATION_DIR: canon name -> parsed YAML text (a dict)
    pc,      \* where the driver is: idle, loading, loaded, raised, flattening, flattened
    arg,     \* the name passed to the outermost load_versification call
    stack,   \* call stack of load_versification frames, innermost last
    heap,    \* list objects created during the current call; a ref is an index
    retv,    \* <<d>> once the outermost load_versification call has returned d, else <<>>
    gab,     \* frame of get_all_books: loop index i and the local list `books`
    flat,    \* caller's table: canon name -> last list returned by get_all_books
    opened,  \* canon files opened, in order, since the outermost load_versification call
    ppc,     \* where parse_diatheke_output is: idle (not yet called), parsing, returned
    output,  \* its argument `output`
    parts,   \* its local `parts`
    parts_i, \* its loop variable `i`
    verses,  \* its local `verses`
    mpc,     \* where main is: off, start, module, load, loading, extract, book,
             \* chapter, write, done, exit (sys.exit(1)), crashed (uncaught exception)
    sword,   \* the SWORD modules installed
    disk,    \* the output directory: path -> document
    module_i,   \* main's loop variable `i`, the 1-based position in the registry
    metadata,   \* <<metadata>> once main has built it
    auxiliary,  \* auxiliary["bibles"], items in insertion order
    frame,   \* <<locals of extract_scripture and get_book>> while they run
    calls,   \* (module, reference) of every run_diatheke call so far
    stderr,  \* the warning and error lines run_diatheke has printed
    write_i, \* position of the writing loop in auxiliary["bibles"]
    program  \* the script run: extract_scriptures or extract_bibles

loaderVars == <<files, pc, arg, stack, heap, retv, gab, flat, opened>>
parserVars == <<ppc, output, parts, parts_i, verses>>
mainVars == <<mpc, sword, disk, module_i, metadata, auxiliary, frame, calls, stderr,
              write_i, program>>
vars == <<loaderVars, parserVars, mainVars>>

-----------------------------------------------------------------------------
(* Python helpers *)

\* Python's None (dict.get without default)
None == "<None>"

\* d.get(k, default)
Get(d, k, default) == IF k \in DOMAIN d THEN d[k] ELSE default

\* truthiness of a str-or-None value: `if insert_after:`, `if book.get("merge_with"):`
Truthy(v) == v # None /\ v # ""

Min(S) == CHOOSE m \in S : \A n \in S : m <= n

\* l.insert(i, x) for 0 <= i <= len(l): x ends up at 0-based index i
ListInsert(l, i, x) == SubSeq(l, 1, i) \o <<x>> \o SubSeq(l, i + 1, Len(l))

-----------------------------------------------------------------------------
(* Canon data *)

\* extract_bibles.BOOKS: the KJV (Protestant) versification table
BOOKS == <<
    <<"Gen", "Genesis", "OT", 50>>,
    <<"Exod", "Exodus", "OT", 40>>,
    <<"Lev", "Leviticus", "OT", 27>>,
    <<"Num", "Numbers", "OT", 36>>,
    <<"Deut", "Deuteronomy", "OT", 34>>,
    <<"Josh", "Joshua", "OT", 24>>,
    <<"Judg", "Judges", "OT", 21>>,
    <<"Ruth", "Ruth", "OT", 4>>,
    <<"1Sam", "1 Samuel", "OT", 31>>,
    <<"2Sam", "2 Samuel", "OT", 24>>,
    <<"1Kgs", "1 Kings", "OT", 22>>,
    <<"2Kgs", "2 Kings", "OT", 25>>,
    <<"1Chr", "1 Chronicles", "OT", 29>>,
    <<"2Chr", "2 Chronicles", "OT", 36>>,
    <<"Ezra", "Ezra", "OT", 10>>,
    <<"Neh", "Nehemiah", "OT", 13>>,
    <<"Esth", "Esther", "OT", 10>>,
    <<"Job", "Job", "OT", 42>>,
    <<"Ps", "Psalms", "OT", 150>>,
    <<"Prov", "Proverbs", "OT", 31>>,
    <<"Eccl", "Ecclesiastes", "OT", 12>>,
    <<"Song", "Song of Solomon", "OT", 8>>,
    <<"Isa", "Isaiah", "OT", 66>>,
    <<"Jer", "Jeremiah", "OT", 52>>,
    <<"Lam", "Lamentations", "OT", 5>>,
    <<"Ezek", "Ezekiel", "OT", 48>>,
    <<"Dan", "Daniel", "OT", 12>>,
    <<"Hos", "Hosea", "OT", 14>>,
    <<"Joel", "Joel", "OT", 3>>,
    <<"Amos", "Amos", "OT", 9>>,
    <<"Obad", "Obadiah", "OT", 1>>,
    <<"Jonah", "Jonah", "OT", 4>>,
    <<"Mic", "Micah", "OT", 7>>,
    <<"Nah", "Nahum", "OT", 3>>,
    <<"Hab", "Habakkuk", "OT", 3>>,
    <<"Zeph", "Zephaniah", "OT", 3>>,
    <<"Hag", "Haggai", "OT", 2>>,
    <<"Zech", "Zechariah", "OT", 14>>,
    <<"Mal", "Malachi", "OT", 4>>,
    <<"Matt", "Matthew", "NT", 28>>,
    <<"Mark", "Mark", "NT", 16>>,
    <<"Luke", "Luke", "NT", 24>>,
    <<"John", "John", "NT", 21>>,
    <<"Acts", "Acts", "NT", 28>>,
    <<"Rom", "Romans", "NT", 16>>,
    <<"1Cor", "1 Corinthians", "NT", 16>>,
    <<"2Cor", "2 Corinthians", "NT", 13>>,
    <<"Gal", "Galatians", "NT", 6>>,
    <<"Eph", "Ephesians", "NT", 6>>,
    <<"Phil", "Philippians", "NT", 4>>,
    <<"Col", "Colossians", "NT", 4>>,
    <<"1Thess", "1 Thessalonians", "NT", 5>>,
    <<"2Thess", "2 Thessalonians", "NT", 3>>,
    <<"1Tim", "1 Timothy", "NT", 6>>,
    <<"2Tim", "2 Timothy", "NT", 4>>,
    <<"Titus", "Titus", "NT", 3>>,
    <<"Phlm", "Philemon", "NT", 1>>,
    <<"Heb", "Hebrews", "NT", 13>>,
    <<"Jas", "James", "NT", 5>>,
    <<"1Pet", "1 Peter", "NT", 5>>,
    <<"2Pet", "2 Peter", "NT", 3>>,
    <<"1John", "1 John", "NT", 5>>,
    <<"2John", "2 John", "NT", 1>>,
    <<"3John", "3 John", "NT", 1>>,
    <<"Jude", "Jude", "NT", 1>>,
    <<"Rev", "Revelation", "NT", 22>>
>>

\* the `books` of protestant.yaml: one simple entry per BOOKS row
ProtestantBooks ==
    [i \in 1..Len(BOOKS) |->
        [id |-> BOOKS[i][1], name |-> BOOKS[i][2],
         testament |-> BOOKS[i][3], chapters |-> BOOKS[i][4]]]

ProtestantYaml ==
    [name |-> "Protestant", tradition |-> "christian", book_count |-> 66,
     books |-> ProtestantBooks]

\* entries a child canon may declare under `additional_books`
Tob == [id |-> "Tob", name |-> "Tobit", chapters |-> 14, testament |-> "DC",
        insert_after |-> "Neh"]
Jdt == [id |-> "Jdt", name |-> "Judith", chapters |-> 16, testament |-> "DC",
        insert_after |-> "Tob"]
Wis == [id |-> "Wis", name |-> "Wisdom", chapters |-> 19, testament |-> "DC",
        insert_after |-> "Neh"]
EsthGr == [id |-> "EsthGr", name |-> "Additions to Esther", chapters |-> 6,
           testament |-> "DC", insert_after |-> "Esth", merge_with |-> "Esth"]
Sir == [id |-> "Sir", name |-> "Sirach", chapters |-> 51, testament |-> "DC"]
Bar == [id |-> "Bar", name |-> "Baruch", chapters |-> 6, testament |-> "DC",
        insert_after |-> "Lam"]
Enoch == [id |-> "1En", name |-> "1 Enoch", chapters |-> 108, testament |-> "DC",
          insert_after |-> "Jdt"]

\* composite entries ("The Twelve"): sub-books with and without name, chapters, testament
Twelve ==
    [id |-> "Twelve", name |-> "The Twelve",
     sub_books |-> << [id |-> "Hos", name |-> "Hosea", chapters |-> 14],
                      [id |-> "Joel"],
                      [id |-> "Amos", name |-> "Amos", chapters |-> 9,
                       testament |-> "NT"] >>]
Meqabyan ==
    [id |-> "Meq", name |-> "Meqabyan", testament |-> "DC", insert_after |-> "Esth",
     sub_books |-> << [id |-> "1Meq", name |-> "1 Meqabyan", chapters |-> 36],
                      [id |-> "2Meq", chapters |-> 21, testament |-> "OT"] >>]

\* a structural entry: no chapter count
Heading == [id |-> "Prophets", name |-> "Prophets"]

\* a simple entry that declares no testament
Ruth == [id |-> "Ruth", name |-> "Ruth", chapters |-> 4]

Neh == ProtestantBooks[16]
Esth == ProtestantBooks[17]

\* a short base canon holding every kind of entry
ExcerptBooks == <<Neh, Esth, Ruth, Heading, Twelve>>

TanakhYaml ==
    [name |-> "Tanakh", tradition |-> "jewish", book_count |-> 24,
     books |-> <<ProtestantBooks[1], Heading, Twelve>>]

QuranYaml ==
    [name |-> "Quran", tradition |-> "islamic", structure |-> "surah",
     total_surahs |-> 114,
     surahs |-> << [number |-> 1, name |-> "Al-Fatihah", ayat |-> 7] >>]

\* longest `additional_books` list enumerated for the catholic canon
MaxAdd == 2

AddPool == {Tob, Jdt, Wis, EsthGr, Sir, Bar}

AddSeqs == UNION {[1..n -> AddPool] : n \in 0..MaxAdd}

BaseYaml(books) ==
    [name |-> "Protestant", tradition |-> "christian", book_count |-> Len(books),
     books |-> books]

CatholicYaml(adds) ==
    [name |-> "Catholic", tradition |-> "christian", extends |-> "protestant",
     book_count |-> 73, additional_books |-> adds]

EthiopianBase ==
    [name |-> "Ethiopian Orthodox", tradition |-> "christian",
     extends |-> "catholic", book_count |-> 81]

\* grandchild declarations: no additional_books key; one anchored on a book the
\* parent added; a composite and an unanchored one beside a `books` key of its own
EthiopianYamls ==
    { EthiopianBase,
      EthiopianBase @@ [additional_books |-> <<Enoch>>],
      EthiopianBase @@ [additional_books |-> <<Meqabyan, Sir>>, books |-> <<Ruth>>] }

Canons(base, cath, eth) ==
    [protestant |-> base, catholic |-> cath, ethiopian |-> eth]

Without(fs, n) == [k \in DOMAIN fs \ {n} |-> fs[k]]

\* the directory with the full Protestant table
FullCanons ==
    Canons(ProtestantYaml, CatholicYaml(<<Tob, Jdt>>),
           EthiopianBase @@ [additional_books |-> <<Enoch>>])
    @@ [tanakh |-> TanakhYaml, quran |-> QuranYaml]

FileSystems ==
    { Canons(BaseYaml(ExcerptBooks), CatholicYaml(a), e) :
          a \in AddSeqs, e \in EthiopianYamls }
    \cup { FullCanons }
    \cup { Without(Canons(BaseYaml(ExcerptBooks), CatholicYaml(<<Tob>>), e), n) :
          e \in EthiopianYamls, n \in {"protestant", "catholic"} }

\* names the driver asks for
CanonNames == {"protestant", "catholic", "ethiopian", "tanakh", "quran", "nonexistent"}

-----------------------------------------------------------------------------
(* load_versification *)

\* yaml.safe_load: a fresh dict; its `books` list is a fresh list object
SafeLoad(h, yaml) ==
    IF "books" \in DOMAIN yaml
    THEN [heap |-> Append(h, yaml.books),
          data |-> [yaml EXCEPT !.books = Len(h) + 1]]
    ELSE [heap |-> h, data |-> yaml]

\* mutant: books = parent.get("books", []) -- the parent's own list object
ListOfParentBooks_Alias(h, parent) ==
    IF "books" \in DOMAIN parent
    THEN [heap |-> h, ref |-> parent.books]
    ELSE [heap |-> Append(h, <<>>), ref |-> Len(h) + 1]

\* books = list(parent.get("books", [])): a new list object with the same entries
ListOfParentBooks(h, parent) ==
    [heap |-> Append(h, IF "books" \in DOMAIN parent THEN h[parent.books] ELSE <<>>),
     ref  |-> Len(h) + 1]

\* mutant: books.insert(i, add_book) -- lands before the anchor
MergeBook_BeforeAnchor(books, add_book) ==
    LET insert_after == Get(add_book, "insert_after", None) IN
    IF Truthy(insert_after)
    THEN LET hits == {i \in 1..Len(books) : books[i].id = insert_after} IN
         IF hits # {}
         THEN ListInsert(books, Min(hits) - 1, add_book)
         ELSE Append(books, add_book)
    ELSE Append(books, add_book)

\* mutant: books[i] = add_book -- the anchor is overwritten
MergeBook_Overwrite(books, add_book) ==
    LET insert_after == Get(add_book, "insert_after", None) IN
    IF Truthy(insert_after)
    THEN LET hits == {i \in 1..Len(books) : books[i].id = insert_after} IN
         IF hits # {}
         THEN [books EXCEPT ![Min(hits)] = add_book]
         ELSE Append(books, add_book)
    ELSE Append(books, add_book)

\* mutant: the anchor index is moved past the entries already spliced after the
\* same anchor, so that same-anchor entries keep their declared order
MergeBook_KeepsDeclaredOrder(books, add_book) ==
    LET insert_after == Get(add_book, "insert_after", None) IN
    IF Truthy(insert_after)
    THEN LET hits == {i \in 1..Len(books) : books[i].id = insert_after} IN
         IF hits # {}
         THEN LET same == {j \in Min(hits)..Len(books) :
                             \A n \in (Min(hits) + 1)..j :
                                 Get(books[n], "insert_after", None) = insert_after}
              IN  ListInsert(books, CHOOSE j \in same : \A n \in same : n <= j, add_book)
         ELSE Append(books, add_book)
    ELSE Append(books, add_book)

\* mutant: the `break` is missing, so the loop's else branch appends as well
MergeBook_NoBreak(books, add_book) ==
    LET insert_after == Get(add_book, "insert_after", None) IN
    IF Truthy(insert_after)
    THEN LET hits == {i \in 1..Len(books) : books[i].id = insert_after} IN
         IF hits # {}
         THEN Append(ListInsert(books, Min(hits), add_book), add_book)
         ELSE Append(books, add_book)
    ELSE Append(books, add_book)

\* the body of `for add_book in ...` applied to the working list
MergeBook(books, add_book) ==
    LET insert_after == Get(add_book, "insert_after", None) IN
    IF Truthy(insert_after)
    THEN LET hits == {i \in 1..Len(books) : books[i].id = insert_after} IN
         IF hits # {}
         THEN ListInsert(books, Min(hits), add_book)
         ELSE Append(books, add_book)
    ELSE Append(books, add_book)

Top == stack[Len(stack)]
Below == SubSeq(stack, 1, Len(stack) - 1)

\* `return value` from the innermost frame
Return(h, value) ==
    IF Len(stack) = 1
    THEN /\ pc' = "loaded"
         /\ retv' = <<value>>
         /\ stack' = <<>>
         /\ heap' = h
    ELSE /\ stack' = SubSeq(stack, 1, Len(stack) - 2)
                       \o <<[stack[Len(stack) - 1] EXCEPT !.at = "copy"]
                              @@ [parent |-> value]>>
         /\ heap' = h
         /\ UNCHANGED <<pc, retv>>

\* the driver calls load_versification(name)
Call(name) ==
    /\ pc \in {"idle", "raised", "flattened"}
    /\ pc' = "loading"
    /\ arg' = name
    /\ stack' = <<[name |-> name, at |-> "enter"]>>
    /\ heap' = <<>>
    /\ retv' = <<>>
    /\ gab' = [i |-> 1, books |-> <<>>]
    /\ UNCHANGED <<files, flat>>
    /\ opened' = <<>>
    /\ UNCHANGED parserVars
    /\ UNCHANGED mainVars

\* mutant: `if not path.exists(): return {}`
NotFound_ReturnsEmpty ==
    /\ pc = "loading" /\ Top.at = "enter"
    /\ Top.name \notin DOMAIN files
    /\ Return(heap, [k \in {} |-> None])
    /\ UNCHANGED <<files, arg, gab, flat>>
    /\ UNCHANGED opened
    /\ UNCHANGED parserVars
    /\ UNCHANGED mainVars

\* path does not exist: FileNotFoundError unwinds every frame
NotFound ==
    /\ pc = "loading" /\ Top.at = "enter"
    /\ Top.name \notin DOMAIN files
    /\ pc' = "raised"
    /\ stack' = <<>>
    /\ retv' = <<>>
    /\ UNCHANGED <<files, arg, heap, gab, flat>>
    /\ UNCHANGED opened
    /\ UNCHANGED parserVars
    /\ UNCHANGED mainVars

\* no `extends`: the parsed dict is returned as is
LoadPlain ==
    /\ pc = "loading" /\ Top.at = "enter"
    /\ Top.name \in DOMAIN files
    /\ LET ld == SafeLoad(heap, files[Top.name]) IN
         /\ "extends" \notin DOMAIN ld.data
         /\ Return(ld.heap, ld.data)
    /\ UNCHANGED <<files, arg, gab, flat>>
    /\ opened' = Append(opened, Top.name)
    /\ UNCHANGED parserVars
    /\ UNCHANGED mainVars

\* mutant: the parent's file is read in place, without the recursive call
LoadExtends_InlinesParent ==
    /\ pc = "loading" /\ Top.at = "enter"
    /\ Top.name \in DOMAIN files
    /\ LET ld == SafeLoad(heap, files[Top.name]) IN
         /\ "extends" \in DOMAIN ld.data
         /\ LET par == IF ld.data.extends \in DOMAIN files
                       THEN SafeLoad(ld.heap, files[ld.data.extends])
                       ELSE [heap |-> ld.heap, data |-> [k \in {} |-> None]] IN
              /\ heap' = par.heap
              /\ stack' = Below \o <<[name |-> Top.name, at |-> "copy", data |-> ld.data,
                                      parent |-> par.data]>>
    /\ UNCHANGED <<files, pc, arg, retv, gab, flat>>
    /\ opened' = Append(opened, Top.name)
    /\ UNCHANGED parserVars
    /\ UNCHANGED mainVars

\* `extends`: recursive call for the parent
LoadExtends ==
    /\ pc = "loading" /\ Top.at = "enter"
    /\ Top.name \in DOMAIN files
    /\ LET ld == SafeLoad(heap, files[Top.name]) IN
         /\ "extends" \in DOMAIN ld.data
         /\ heap' = ld.heap
         /\ stack' = Below \o <<[name |-> Top.name, at |-> "call", data |-> ld.data],
                                [name |-> ld.data.extends, at |-> "enter"]>>
    /\ UNCHANGED <<files, pc, arg, retv, gab, flat>>
    /\ opened' = Append(opened, Top.name)
    /\ UNCHANGED parserVars
    /\ UNCHANGED mainVars

\* books = list(parent.get("books", []))
CopyParentBooks ==
    /\ pc = "loading" /\ Top.at = "copy"
    /\ LET c == ListOfParentBooks(heap, Top.parent) IN
         /\ heap' = c.heap
         /\ stack' = Below \o <<[Top EXCEPT !.at = "merge"] @@ [books |-> c.ref, k |-> 1]>>
    /\ UNCHANGED <<files, pc, arg, retv, gab, flat>>
    /\ UNCHANGED opened
    /\ UNCHANGED parserVars
    /\ UNCHANGED mainVars

AdditionalBooks(data) == Get(data, "additional_books", <<>>)

\* one iteration of `for add_book in data.get("additional_books", [])`
MergeStep ==
    /\ pc = "loading" /\ Top.at = "merge"
    /\ Top.k <= Len(AdditionalBooks(Top.data))
    /\ heap' = [heap EXCEPT ![Top.books] = MergeBook(@, AdditionalBooks(Top.data)[Top.k])]
    /\ stack' = Below \o <<[Top EXCEPT !.k = @ + 1]>>
    /\ UNCHANGED <<files, pc, arg, retv, gab, flat>>
    /\ UNCHANGED opened
    /\ UNCHANGED parserVars
    /\ UNCHANGED mainVars

\* mutant: parent["books"] = books; return parent
MergeReturn_ReturnsParent ==
    /\ pc = "loading" /\ Top.at = "merge"
    /\ Top.k > Len(AdditionalBooks(Top.data))
    /\ Return(heap, [k \in DOMAIN Top.parent \cup {"books"} |->
                        IF k = "books" THEN Top.books ELSE Top.parent[k]])
    /\ UNCHANGED <<files, arg, gab, flat>>
    /\ UNCHANGED opened
    /\ UNCHANGED parserVars
    /\ UNCHANGED mainVars

\* data["books"] = books; return data
MergeReturn ==
    /\ pc = "loading" /\ Top.at = "merge"
    /\ Top.k > Len(AdditionalBooks(Top.data))
    /\ Return(heap, [k \in DOMAIN Top.data \cup {"books"} |->
                        IF k = "books" THEN Top.books ELSE Top.data[k]])
    /\ UNCHANGED <<files, arg, gab, flat>>
    /\ UNCHANGED opened
    /\ UNCHANGED parserVars
    /\ UNCHANGED mainVars

-----------------------------------------------------------------------------
(* get_all_books *)

\* mutant: the merge_with test is missing
BookUnits_KeepsMerged(book) ==
    IF "sub_books" \in DOMAIN book
    THEN [j \in 1..Len(book.sub_books) |->
            LET sub == book.sub_books[j] IN
            [id |-> sub.id,
             name |-> Get(sub, "name", sub.id),
             chapters |-> Get(sub, "chapters", 1),
             testament |-> Get(book, "testament", "OT")]]
    ELSE IF "chapters" \notin DOMAIN book
    THEN <<>>
    ELSE << [id |-> book.id,
             name |-> book.name,
             chapters |-> book.chapters,
             testament |-> Get(book, "testament", "OT")] >>

\* mutant: "testament": sub.get("testament", book.get("testament", "OT"))
BookUnits_SubTestament(book) ==
    IF Truthy(Get(book, "merge_with", None))
    THEN <<>>
    ELSE IF "sub_books" \in DOMAIN book
    THEN [j \in 1..Len(book.sub_books) |->
            LET sub == book.sub_books[j] IN
            [id |-> sub.id,
             name |-> Get(sub, "name", sub.id),
             chapters |-> Get(sub, "chapters", 1),
             testament |-> Get(sub, "testament", Get(book, "testament", "OT"))]]
    ELSE IF "chapters" \notin DOMAIN book
    THEN <<>>
    ELSE << [id |-> book.id,
             name |-> book.name,
             chapters |-> book.chapters,
             testament |-> Get(book, "testament", "OT")] >>

\* mutant: "testament": book.get("testament") -- no default
BookUnits_NoTestamentDefault(book) ==
    IF Truthy(Get(book, "merge_with", None))
    THEN <<>>
    ELSE IF "sub_books" \in DOMAIN book
    THEN [j \in 1..Len(book.sub_books) |->
            LET sub == book.sub_books[j] IN
            [id |-> sub.id,
             name |-> Get(sub, "name", sub.id),
             chapters |-> Get(sub, "chapters", 1),
             testament |-> Get(book, "testament", None)]]
    ELSE IF "chapters" \notin DOMAIN book
    THEN <<>>
    ELSE << [id |-> book.id,
             name |-> book.name,
             chapters |-> book.chapters,
             testament |-> Get(book, "testament", None)] >>

\* what one iteration of `for book in versification.get("books", [])` appends
BookUnits(book) ==
    IF Truthy(Get(book, "merge_with", None))
    THEN <<>>
    ELSE IF "sub_books" \in DOMAIN book
    THEN [j \in 1..Len(book.sub_books) |->
            LET sub == book.sub_books[j] IN
            [id |-> sub.id,
             name |-> Get(sub, "name", sub.id),
             chapters |-> Get(sub, "chapters", 1),
             testament |-> Get(book, "testament", "OT")]]
    ELSE IF "chapters" \notin DOMAIN book
    THEN <<>>
    ELSE << [id |-> book.id,
             name |-> book.name,
             chapters |-> book.chapters,
             testament |-> Get(book, "testament", "OT")] >>

\* versification.get("books", []) of the loaded definition
VBooks == IF "books" \in DOMAIN retv[1] THEN heap[retv[1].books] ELSE <<>>

\* mutant: the loop starts at the second entry
GetAllBooksCall_SkipFirst ==
    /\ pc = "loaded"
    /\ pc' = "flattening"
    /\ gab' = [i |-> 2, books |-> <<>>]
    /\ UNCHANGED <<files, arg, stack, heap, retv, flat>>
    /\ UNCHANGED opened
    /\ UNCHANGED parserVars
    /\ UNCHANGED mainVars

\* the driver calls get_all_books on what load_versification returned
GetAllBooksCall ==
    /\ pc = "loaded"
    /\ pc' = "flattening"
    /\ gab' = [i |-> 1, books |-> <<>>]
    /\ UNCHANGED <<files, arg, stack, heap, retv, flat>>
    /\ UNCHANGED opened
    /\ UNCHANGED parserVars
    /\ UNCHANGED mainVars

\* mutant: books.insert(0, ...) instead of books.append(...)
GetAllBooksStep_Prepend ==
    /\ pc = "flattening"
    /\ gab.i <= Len(VBooks)
    /\ gab' = [i |-> gab.i + 1, books |-> BookUnits(VBooks[gab.i]) \o gab.books]
    /\ UNCHANGED <<files, pc, arg, stack, heap, retv, flat>>
    /\ UNCHANGED opened
    /\ UNCHANGED parserVars
    /\ UNCHANGED mainVars

\* one iteration of `for book in versification.get("books", [])`
GetAllBooksStep ==
    /\ pc = "flattening"
    /\ gab.i <= Len(VBooks)
    /\ gab' = [i |-> gab.i + 1, books |-> gab.books \o BookUnits(VBooks[gab.i])]
    /\ UNCHANGED <<files, pc, arg, stack, heap, retv, flat>>
    /\ UNCHANGED opened
    /\ UNCHANGED parserVars
    /\ UNCHANGED mainVars

\* return books; the caller keeps the list under the canon's name
GetAllBooksReturn ==
    /\ pc = "flattening"
    /\ gab.i > Len(VBooks)
    /\ pc' = "flattened"
    /\ flat' = [n \in DOMAIN flat \cup {arg} |-> IF n = arg THEN gab.books ELSE flat[n]]
    /\ UNCHANGED <<files, arg, stack, heap, retv, gab>>
    /\ UNCHANGED opened
    /\ UNCHANGED parserVars
    /\ UNCHANGED mainVars

-----------------------------------------------------------------------------
(* Python str and re helpers; a str is a TLA+ string, positions are 1-based *)

Ch(s, p) == SubSeq(s, p, p)

Upper == {"A", "B", "C", "D", "E", "F", "G", "H", "I", "J", "K", "L", "M",
          "N", "O", "P", "Q", "R", "S", "T", "U", "V", "W", "X", "Y", "Z"}
Lower == {"a", "b", "c", "d", "e", "f", "g", "h", "i", "j", "k", "l", "m",
          "n", "o", "p", "q", "r", "s", "t", "u", "v", "w", "x", "y", "z"}
Alpha == Upper \cup Lower
Digit == {"0", "1", "2", "3", "4", "5", "6", "7", "8", "9"}
\* \s, and what str.strip() and str.split() remove
Whitespace == {" ", "\n", "\t"}

\* s[a..b] is made of characters of class only (true when a > b)
AllIn(s, a, b, class) == \A p \in a..b : Ch(s, p) \in class

Max(S) == CHOOSE m \in S : \A n \in S : m >= n

\* str.strip()
Strip(s) ==
    LET keep == {p \in 1..Len(s) : Ch(s, p) \notin Whitespace}
    IN  IF keep = {} THEN "" ELSE SubSeq(s, Min(keep), Max(keep))

\* ' '.join(s.split()): the whitespace-separated words joined by single spaces
RECURSIVE JoinSplitFrom(_, _)
JoinSplitFrom(s, p) ==
    LET starts == {a \in p..Len(s) : Ch(s, a) \notin Whitespace}
    IN  IF starts = {} THEN ""
        ELSE LET a == Min(starts)
                 stops == {b \in a..Len(s) : Ch(s, b) \in Whitespace}
                 b == IF stops = {} THEN Len(s) + 1 ELSE Min(stops)
                 rest == JoinSplitFrom(s, b)
             IN  SubSeq(s, a, b - 1) \o (IF rest = "" THEN "" ELSE " " \o rest)

JoinSplit(s) == JoinSplitFrom(s, 1)

\* int(s) for a string of decimal digits
DigitValue(c) ==
    CASE c = "0" -> 0 [] c = "1" -> 1 [] c = "2" -> 2 [] c = "3" -> 3 [] c = "4" -> 4
      [] c = "5" -> 5 [] c = "6" -> 6 [] c = "7" -> 7 [] c = "8" -> 8 [] c = "9" -> 9

RECURSIVE int(_)
int(s) ==
    IF s = "" THEN 0
    ELSE 10 * int(SubSeq(s, 1, Len(s) - 1)) + DigitValue(Ch(s, Len(s)))

\* positions reachable from a position of X by reading class+ (one or more)
Plus(s, X, class) ==
    {q \in 2..Len(s) + 1 : \E p \in X : p < q /\ AllIn(s, p, q - 1, class)}

\* positions reachable from a position of X by reading the literal lit
Lit(s, X, lit) ==
    {p + Len(lit) : p \in {x \in X : /\ x + Len(lit) - 1 <= Len(s)
                                      /\ SubSeq(s, x, x + Len(lit) - 1) = lit}}

-----------------------------------------------------------------------------
(* is_placeholder_text *)

\* re.match of  ^(?:[1-4]\s+|I{1,3}V?\s+)?[A-Za-z]+(?:\s+(?:of\s+)?[A-Za-z]+)*\s+\d+:\d+:?$
\* each set holds the positions the pattern can have reached
RECURSIVE MoreWords(_, _)
MoreWords(t, X) ==
    LET sp == Plus(t, X, Whitespace)
        of == Plus(t, Lit(t, sp, "of"), Whitespace)
        Y  == X \cup Plus(t, sp \cup of, Alpha)
    IN  IF Y = X THEN X ELSE MoreWords(t, Y)

PlaceholderPattern(t) ==
    LET arabic == Plus(t, {p + 1 : p \in {x \in {1} : x <= Len(t) /\ Ch(t, x) \in {"1", "2", "3", "4"}}},
                       Whitespace)
        i1     == Lit(t, {1}, "I")
        i2     == Lit(t, i1, "I")
        i3     == Lit(t, i2, "I")
        ones   == i1 \cup i2 \cup i3
        roman  == Plus(t, ones \cup Lit(t, ones, "V"), Whitespace)
        word   == Plus(t, {1} \cup arabic \cup roman, Alpha)
        name   == MoreWords(t, word)
        verse  == Plus(t, Lit(t, Plus(t, Plus(t, name, Whitespace), Digit), ":"), Digit)
        stop   == verse \cup Lit(t, verse, ":")
    IN  \* $ is the end of the string, or the place before a final newline
        \/ Len(t) + 1 \in stop
        \/ Len(t) \in stop /\ Ch(t, Len(t)) = "\n"

is_placeholder_text(text) ==
    LET t == Strip(text)
    IN  IF Len(t) < 5 THEN TRUE ELSE PlaceholderPattern(t)

-----------------------------------------------------------------------------
(* parse_diatheke_output *)

\* re.sub(r'\n\([^)]+\)\s*$', '', s): the text from the leftmost newline that
\* opens a parenthesised attribution running to the end of s is removed
RemoveAttribution(s) ==
    LET starts == {p \in 1..Len(s) - 3 :
                     /\ Ch(s, p) = "\n"
                     /\ Ch(s, p + 1) = "("
                     /\ \E q \in p + 3..Len(s) :
                          /\ \A r \in p + 2..q - 1 : Ch(s, r) # ")"
                          /\ Ch(s, q) = ")"
                          /\ AllIn(s, q + 1, Len(s), Whitespace)}
    IN  IF starts = {} THEN s ELSE SubSeq(s, 1, Min(starts) - 1)

\* [A-Za-z0-9 ]
NameChar == Alpha \cup Digit \cup {" "}

\* positions after the colon that follows a group ([A-Za-z0-9 ]+\s+\d+:\d+) starting at g
AfterMarker(s, g) ==
    Lit(s, Plus(s, Lit(s, Plus(s, Plus(s, Plus(s, {g}, NameChar), Whitespace), Digit), ":"), Digit), ":")

\* the match of (?:^|\n)([A-Za-z0-9 ]+\s+\d+:\d+):\s* that starts at p, as <<m>>, or <<>>
MarkerAt(s, p) ==
    LET g == IF p = 1 /\ AfterMarker(s, 1) # {} THEN 1
             ELSE IF Ch(s, p) = "\n" /\ AfterMarker(s, p + 1) # {} THEN p + 1
             ELSE 0
    IN  IF g = 0 THEN <<>>
        ELSE LET c == Max(AfterMarker(s, g))
             IN  <<[group |-> SubSeq(s, g, c - 2),
                    end   |-> Max({c} \cup Plus(s, {c}, Whitespace))]>>

\* re.split(pattern, s) from position `from` on: text, group, text, group, ..., text
RECURSIVE SplitFrom(_, _)
SplitFrom(s, from) ==
    LET found == {p \in from..Len(s) : MarkerAt(s, p) # <<>>}
    IN  IF found = {} THEN <<SubSeq(s, from, Len(s))>>
        ELSE LET p == Min(found)
                 m == MarkerAt(s, p)[1]
             IN  <<SubSeq(s, from, p - 1), m.group>> \o SplitFrom(s, m.end)

Split(s) == SplitFrom(s, 1)

\* parts[i] with Python's 0-based index
Part(ps, i) == ps[i + 1]

\* re.search(r':(\d+)$', ref).group(1), as <<digits>>, or <<>> without a match
VerseDigits(ref) ==
    LET found == {p \in 1..Len(ref) - 1 : Ch(ref, p) = ":" /\ AllIn(ref, p + 1, Len(ref), Digit)}
    IN  IF found = {} THEN <<>> ELSE <<SubSeq(ref, Min(found) + 1, Len(ref))>>

\* mutant: the digits before the last colon (the chapter)
VerseNumber_Chapter(ref) ==
    LET colon == Max({p \in 1..Len(ref) : Ch(ref, p) = ":"})
        start == Min({p \in 1..colon : AllIn(ref, p, colon - 1, Digit)})
    IN  int(SubSeq(ref, start, colon - 1))

\* verse_num = int(match.group(1))
VerseNumber(ref) == int(VerseDigits(ref)[1])

\* mutant: no placeholder filter (the earlier extractor's loop body)
ParseVerse_NoFilter(ps, i, vs) ==
    IF i + 1 < Len(ps)
    THEN LET ref  == Strip(Part(ps, i))
             text == Strip(Part(ps, i + 1))
         IN  IF VerseDigits(ref) # <<>> /\ text # ""
             THEN Append(vs, [number |-> VerseNumber(ref), text |-> JoinSplit(text)])
             ELSE vs
    ELSE vs

\* body of `for i in range(1, len(parts), 2)`: verses after the iteration for i
ParseVerse(ps, i, vs) ==
    IF i + 1 < Len(ps)
    THEN LET ref  == Strip(Part(ps, i))
             text == Strip(Part(ps, i + 1))
         IN  IF VerseDigits(ref) # <<>> /\ text # ""
             THEN IF is_placeholder_text(text)
                  THEN vs
                  ELSE Append(vs, [number |-> VerseNumber(ref), text |-> JoinSplit(text)])
             ELSE vs
    ELSE vs

\* parts of the output, attribution removed
Parts(out) == Split(RemoveAttribution(Strip(out)))

\* the whole loop from index i on
RECURSIVE ParseLoop(_, _, _)
ParseLoop(ps, i, vs) ==
    IF i < Len(ps) THEN ParseLoop(ps, i + 2, ParseVerse(ps, i, vs)) ELSE vs

\* parse_diatheke_output(output, book_id, chapter); book_id and chapter are not used
parse_diatheke_output(out) == ParseLoop(Parts(out), 1, <<>>)

\* mutant: the baseline loop body applies the placeholder test as well
BiblesParseVerse_Filtered(ps, i, vs) ==
    IF i + 1 < Len(ps)
    THEN LET ref  == Strip(Part(ps, i))
             text == Strip(Part(ps, i + 1))
         IN  IF VerseDigits(ref) # <<>> /\ text # "" /\ ~is_placeholder_text(text)
             THEN Append(vs, [number |-> VerseNumber(ref), text |-> JoinSplit(text)])
             ELSE vs
    ELSE vs

\* extract_bibles.py: the loop body of its parse_diatheke_output, which has no
\* placeholder test
BiblesParseVerse(ps, i, vs) ==
    IF i + 1 < Len(ps)
    THEN LET ref  == Strip(Part(ps, i))
             text == Strip(Part(ps, i + 1))
         IN  IF VerseDigits(ref) # <<>> /\ text # ""
             THEN Append(vs, [number |-> VerseNumber(ref), text |-> JoinSplit(text)])
             ELSE vs
    ELSE vs

RECURSIVE BiblesParseLoop(_, _, _)
BiblesParseLoop(ps, i, vs) ==
    IF i < Len(ps) THEN BiblesParseLoop(ps, i + 2, BiblesParseVerse(ps, i, vs)) ELSE vs

\* extract_bibles.py: parse_diatheke_output(output, book_id, chapter)
bibles_parse_diatheke_output(out) == BiblesParseLoop(Parts(out), 1, <<>>)

\* outputs handed to the parser: up to MaxLines lines, each a reference marker
\* (or none, for a continuation line) and a body, then the end of the output
MaxLines == 2

Markers == {"Gen 2:3: ", "1 John 2:10:", ""}

Bodies == {"In the beginning", "abc", "II Chronicles 19:2:", "a \n\tb", ""}

Tails == {"", "\n(KJV)", "\n\n(KJV)\n", "(KJV)", " \n"}

RECURSIVE JoinLines(_)
JoinLines(ls) ==
    IF ls = <<>> THEN ""
    ELSE IF Len(ls) = 1 THEN ls[1]
    ELSE ls[1] \o "\n" \o JoinLines(Tail(ls))

ParserInputs ==
    {JoinLines(ls) \o t :
        ls \in UNION {[1..n -> {m \o b : m \in Markers, b \in Bodies}] : n \in 0..MaxLines},
        t \in Tails}

\* no call of the parser has been made
ParserIdle ==
    /\ ppc = "idle"
    /\ output = ""
    /\ parts = <<>>
    /\ parts_i = 1
    /\ verses = <<>>

\* parse_diatheke_output(output, ...) up to the loop
ParseCall ==
    /\ ppc = "idle"
    /\ ppc' = "parsing"
    /\ parts' = Parts(output)
    /\ parts_i' = 1
    /\ verses' = <<>>
    /\ UNCHANGED output
    /\ UNCHANGED loaderVars
    /\ UNCHANGED mainVars

\* one iteration of `for i in range(1, len(parts), 2)`
ParseStep ==
    /\ ppc = "parsing"
    /\ parts_i < Len(parts)
    /\ verses' = ParseVerse(parts, parts_i, verses)
    /\ parts_i' = parts_i + 2
    /\ UNCHANGED <<ppc, output, parts>>
    /\ UNCHANGED loaderVars
    /\ UNCHANGED mainVars

\* mutant: `if not verses: raise ValueError(...)`
ParseReturn_RaisesOnEmpty ==
    /\ ppc = "parsing"
    /\ parts_i >= Len(parts)
    /\ ppc' = IF verses = <<>> THEN "raised" ELSE "returned"
    /\ UNCHANGED <<output, parts, parts_i, verses>>
    /\ UNCHANGED loaderVars
    /\ UNCHANGED mainVars

\* return verses
ParseReturn ==
    /\ ppc = "parsing"
    /\ parts_i >= Len(parts)
    /\ ppc' = "returned"
    /\ UNCHANGED <<output, parts, parts_i, verses>>
    /\ UNCHANGED loaderVars
    /\ UNCHANGED mainVars

-----------------------------------------------------------------------------
(* main of extract_scriptures.py and of extract_bibles.py: registries, canon *)
(* directory, SWORD library                                                 *)

\* modules of SCRIPTURES this run is set up for, in registry order
SCRIPTURES ==
    << [module |-> "KJV", id |-> "kjv", description |-> "The Authorized Version",
        versification |-> "protestant"],
       [module |-> "DRC", id |-> "drc", description |-> "Douay-Rheims Bible",
        versification |-> "catholic"],
       [module |-> "ASV", id |-> "asv", description |-> "American Standard Version",
        versification |-> "protestant"] >>

\* modules of MODULES (extract_bibles.py), in registry order
MODULES ==
    << [module |-> "KJV", id |-> "kjv", description |-> "The Authorized Version"],
       [module |-> "DRC", id |-> "drc", description |-> "Douay-Rheims Bible"] >>

\* the registry main iterates over
Registry == IF program = "extract_bibles" THEN MODULES ELSE SCRIPTURES

Obad == ProtestantBooks[31]
Hag == ProtestantBooks[37]
Sus == [id |-> "Sus", name |-> "Susanna", testament |-> "DC", chapters |-> 1,
        insert_after |-> "Obad"]

\* canon directories of a run: two short books, a third added by catholic;
\* complete, or with one definition missing
ShortCanons ==
    [protestant |-> BaseYaml(<<Obad, Hag>>), catholic |-> CatholicYaml(<<Sus>>)]

RunFileSystems ==
    {ShortCanons, Without(ShortCanons, "catholic"), Without(ShortCanons, "protestant")}

\* what an installed module prints for a reference, before its attribution line:
\* KJV has no text for Haggai 2, ASV has neither Obadiah nor Haggai 1
Passages ==
    [KJV |-> ("Gen 1:1" :> "Genesis 1:1: In the beginning")
          @@ ("Obadiah 1:1" :> "Obadiah 1:1: The vision")
          @@ ("Obadiah 1" :> "Obadiah 1:1: The vision\nObadiah 1:2: Behold, I")
          @@ ("Haggai 1:1" :> "Haggai 1:1: In the second")
          @@ ("Haggai 1" :> "Haggai 1:1: In the second")
          @@ ("Haggai 2" :> "Haggai 2:1: \nHaggai 2:2:"),
     DRC |-> ("Gen 1:1" :> "Genesis 1:1: In the beginning")
          @@ ("Obadiah 1:1" :> "Obadiah 1:1: The vision")
          @@ ("Obadiah 1" :> "Obadiah 1:1: The vision")
          @@ ("Susanna 1:1" :> "Susanna 1:1: Now there was")
          @@ ("Susanna 1" :> "Susanna 1:1: Now there was")
          @@ ("Haggai 1:1" :> "Haggai 1:1: In the second")
          @@ ("Haggai 1" :> "Haggai 1:1: In the second")
          @@ ("Haggai 2" :> "Haggai 2:1: In the four"),
     ASV |-> ("Gen 1:1" :> "Genesis 1:1: In the beginning")
          @@ ("Haggai 1:1" :> "Haggai 1:1: In the second")
          @@ ("Haggai 2" :> "Haggai 2:1: In the seventh")]

\* sets of installed modules
SwordLibraries == {{"KJV", "DRC", "ASV"}, {"KJV", "ASV"}}

\* stdout of `diatheke -b module -f plain -k reference` when it runs to its end
Diatheke(installed, module, reference) ==
    IF module \notin installed THEN ""
    ELSE IF reference \in DOMAIN Passages[module]
    THEN Passages[module][reference] \o "\n(" \o module \o ")\n"
    ELSE "(" \o module \o ")\n"

\* files left in the output directory by an earlier run
PriorDocument == [generated |-> "earlier run"]

PriorDisk ==
    ("bibles.json" :> PriorDocument)
    @@ ("bibles_auxiliary.json" :> PriorDocument)
    @@ ("bibles_auxiliary/kjv.json" :> PriorDocument)
    @@ ("bibles_auxiliary/vulgate.json" :> PriorDocument)

\* str(n) for n >= 0
DigitChar(d) ==
    CASE d = 0 -> "0" [] d = 1 -> "1" [] d = 2 -> "2" [] d = 3 -> "3" [] d = 4 -> "4"
      [] d = 5 -> "5" [] d = 6 -> "6" [] d = 7 -> "7" [] d = 8 -> "8" [] d = 9 -> "9"

RECURSIVE str(_)
str(n) == IF n < 10 THEN DigitChar(n) ELSE str(n \div 10) \o DigitChar(n % 10)

\* failures of invocations allowed in one run
MaxFailures == 1

\* how a subprocess.run call ends
Outcomes == {"completed", "TimeoutExpired", "Exception"}

\* run_diatheke(module, reference): the stdout, or "" from either except branch
run_diatheke(module, reference, outcome) ==
    IF outcome = "completed" THEN Diatheke(sword, module, reference) ELSE ""

\* the invocation is made; a failed one prints its warning or error line
Invoked(module, reference, outcome) ==
    /\ outcome # "completed" => Len(stderr) < MaxFailures
    /\ calls' = Append(calls, <<module, reference>>)
    /\ stderr' = IF outcome = "completed" THEN stderr
                 ELSE Append(stderr, [line |-> outcome, module |-> module,
                                      reference |-> reference])

\* str.startswith
StartsWith(s, prefix) ==
    Len(s) >= Len(prefix) /\ SubSeq(s, 1, Len(prefix)) = prefix

\* check_book_exists, given the output of its lookup
check_book_exists(module, out) ==
    Strip(out) # "" /\ ~StartsWith(Strip(out), "(" \o module \o ")")

Module == Registry[module_i]

\* main has not been started
MainIdle ==
    /\ mpc = "off"
    /\ sword = {}
    /\ disk = <<>>
    /\ module_i = 1
    /\ metadata = <<>>
    /\ auxiliary = <<>>
    /\ frame = <<>>
    /\ calls = <<>>
    /\ stderr = <<>>
    /\ write_i = 1
    /\ program = "extract_scriptures"

\* the availability check at the top of main; only FileNotFoundError is caught
DiathekeCheck(outcome) ==
    /\ mpc = "start"
    /\ mpc' = CASE outcome = "completed" -> "module"
                [] outcome = "FileNotFoundError" -> "exit"
                [] outcome = "TimeoutExpired" -> "crashed"
    /\ metadata' = IF outcome = "completed"
                   THEN <<[bibles |-> <<>>, generated |-> "this run"]>>
                   ELSE metadata
    /\ UNCHANGED <<sword, disk, module_i, auxiliary, frame, calls, stderr, write_i>>
    /\ UNCHANGED <<loaderVars, parserVars>>
    /\ UNCHANGED program

\* test = run_diatheke(module, "Gen 1:1"); an unavailable module is skipped
ModuleCheck(outcome) ==
    /\ mpc = "module"
    /\ module_i <= Len(Registry)
    /\ Invoked(Module.module, "Gen 1:1", outcome)
    /\ IF Strip(run_diatheke(Module.module, "Gen 1:1", outcome)) = ""
       THEN module_i' = module_i + 1 /\ mpc' = "module"
       ELSE /\ module_i' = module_i
            /\ mpc' = IF program = "extract_bibles" THEN "append" ELSE "load"
    /\ UNCHANGED <<sword, disk, metadata, auxiliary, frame, write_i>>
    /\ UNCHANGED <<loaderVars, parserVars>>
    /\ UNCHANGED program

\* versification = load_versification(meta["versification"]): the call
MainLoadVersification ==
    /\ mpc = "load"
    /\ mpc' = "loading"
    /\ pc' = "loading"
    /\ arg' = Module.versification
    /\ stack' = <<[name |-> Module.versification, at |-> "enter"]>>
    /\ heap' = <<>>
    /\ retv' = <<>>
    /\ gab' = [i |-> 1, books |-> <<>>]
    /\ opened' = <<>>
    /\ UNCHANGED <<files, flat>>
    /\ UNCHANGED <<sword, disk, module_i, metadata, auxiliary, frame, calls, stderr, write_i>>
    /\ UNCHANGED parserVars
    /\ UNCHANGED program

\* FileNotFoundError from load_versification reaches the top of main
Unhandled ==
    /\ mpc = "loading"
    /\ pc = "raised"
    /\ mpc' = "crashed"
    /\ UNCHANGED <<sword, disk, module_i, metadata, auxiliary, frame, calls, stderr, write_i>>
    /\ UNCHANGED <<loaderVars, parserVars>>
    /\ UNCHANGED program

\* mutant: the weight is the entry's position in the metadata list
AppendMetadata_WeightByListPosition ==
    /\ mpc = "loading"
    /\ pc = "loaded"
    /\ mpc' = "extract"
    /\ metadata' = [metadata EXCEPT ![1].bibles =
                      Append(@, [id |-> Module.id, description |-> Module.description,
                                 versification |-> Module.versification,
                                 weight |-> Len(@) + 1])]
    /\ UNCHANGED <<sword, disk, module_i, auxiliary, frame, calls, stderr, write_i>>
    /\ UNCHANGED <<loaderVars, parserVars>>
    /\ UNCHANGED program

\* metadata["bibles"].append({...}) once the versification has been returned
AppendMetadata ==
    /\ mpc = "loading"
    /\ pc = "loaded"
    /\ mpc' = "extract"
    /\ metadata' = [metadata EXCEPT ![1].bibles =
                      Append(@, [id |-> Module.id, description |-> Module.description,
                                 versification |-> Module.versification,
                                 weight |-> module_i])]
    /\ UNCHANGED <<sword, disk, module_i, auxiliary, frame, calls, stderr, write_i>>
    /\ UNCHANGED <<loaderVars, parserVars>>
    /\ UNCHANGED program

\* books = get_all_books(versification) has returned; extracted_books = []
ExtractScriptureBooks ==
    /\ mpc = "extract"
    /\ pc = "flattened"
    /\ mpc' = "book"
    /\ frame' = <<[books |-> flat[arg], book_i |-> 1, extracted_books |-> <<>>,
                   ch |-> 1, chapters |-> <<>>]>>
    /\ UNCHANGED <<sword, disk, module_i, metadata, auxiliary, calls, stderr, write_i>>
    /\ UNCHANGED <<loaderVars, parserVars>>
    /\ UNCHANGED program

Frame == frame[1]
Book == Frame.books[Frame.book_i]

\* `if not check_book_exists(module, book_name): continue`, else get_book is entered
CheckBookExists(outcome) ==
    /\ program = "extract_scriptures"
    /\ mpc = "book"
    /\ Frame.book_i <= Len(Frame.books)
    /\ Invoked(Module.module, Book.name \o " 1:1", outcome)
    /\ IF check_book_exists(Module.module,
                            run_diatheke(Module.module, Book.name \o " 1:1", outcome))
       THEN /\ mpc' = "chapter"
            /\ frame' = <<[Frame EXCEPT !.ch = 1, !.chapters = <<>>]>>
       ELSE /\ mpc' = "book"
            /\ frame' = <<[Frame EXCEPT !.book_i = @ + 1]>>
    /\ UNCHANGED <<sword, disk, module_i, metadata, auxiliary, write_i>>
    /\ UNCHANGED <<loaderVars, parserVars>>
    /\ UNCHANGED program

\* get_chapter(module, book_id, book_name, ch), with the script's own parser
get_chapter(module, book_name, chapter, outcome) ==
    LET out == run_diatheke(module, book_name \o " " \o str(chapter), outcome)
    IN  [number |-> chapter,
         verses |-> IF program = "extract_bibles"
                    THEN bibles_parse_diatheke_output(out)
                    ELSE parse_diatheke_output(out)]

\* mutant: every chapter is appended
GetChapter_KeepsEmpty(outcome) ==
    /\ mpc = "chapter"
    /\ Frame.ch <= Book.chapters
    /\ Invoked(Module.module, Book.name \o " " \o str(Frame.ch), outcome)
    /\ LET chapter == get_chapter(Module.module, Book.name, Frame.ch, outcome)
       IN  frame' = <<[Frame EXCEPT !.ch = @ + 1, !.chapters = Append(@, chapter)]>>
    /\ UNCHANGED <<mpc, sword, disk, module_i, metadata, auxiliary, write_i>>
    /\ UNCHANGED <<loaderVars, parserVars>>
    /\ UNCHANGED program

\* one iteration of `for ch in range(1, num_chapters + 1)` in get_book
GetChapter(outcome) ==
    /\ mpc = "chapter"
    /\ Frame.ch <= Book.chapters
    /\ Invoked(Module.module, Book.name \o " " \o str(Frame.ch), outcome)
    /\ LET chapter == get_chapter(Module.module, Book.name, Frame.ch, outcome)
       IN  frame' = <<[Frame EXCEPT !.ch = @ + 1,
                                   !.chapters = IF chapter.verses # <<>>
                                                THEN Append(@, chapter) ELSE @]>>
    /\ UNCHANGED <<mpc, sword, disk, module_i, metadata, auxiliary, write_i>>
    /\ UNCHANGED <<loaderVars, parserVars>>
    /\ UNCHANGED program

\* get_book returns; `if extracted["chapters"]: extracted_books.append(extracted)`
GetBookReturn ==
    /\ mpc = "chapter"
    /\ Frame.ch > Book.chapters
    /\ mpc' = "book"
    /\ LET extracted == [id |-> Book.id, name |-> Book.name,
                         testament |-> Book.testament, chapters |-> Frame.chapters]
       IN  frame' = <<[Frame EXCEPT !.book_i = @ + 1,
                                   !.extracted_books = IF extracted.chapters # <<>>
                                                       THEN Append(@, extracted) ELSE @,
                                   !.ch = 1, !.chapters = <<>>]>>
    /\ UNCHANGED <<sword, disk, module_i, metadata, auxiliary, calls, stderr, write_i>>
    /\ UNCHANGED <<loaderVars, parserVars>>
    /\ UNCHANGED program

\* d[key] = value on an insertion-ordered dict held as a sequence of items
DictSet(d, key, value) ==
    IF \E k \in 1..Len(d) : d[k].key = key
    THEN [k \in 1..Len(d) |-> IF d[k].key = key THEN [key |-> key, value |-> value] ELSE d[k]]
    ELSE Append(d, [key |-> key, value |-> value])

\* open(path, "w") and json.dump(document, f)
Write(d, path, document) ==
    [p \in DOMAIN d \cup {path} |-> IF p = path THEN document ELSE d[p]]

\* mutant: each content document is written as soon as its module is extracted
ExtractScriptureReturn_WritesDocument ==
    /\ program = "extract_scriptures"
    /\ mpc = "book"
    /\ Frame.book_i > Len(Frame.books)
    /\ mpc' = "module"
    /\ auxiliary' = DictSet(auxiliary, Module.id,
                            [content |-> Module.description,
                             books |-> Frame.extracted_books, sections |-> <<>>])
    /\ disk' = Write(disk, "bibles_auxiliary/" \o Module.id \o ".json",
                     [content |-> Module.description,
                      books |-> Frame.extracted_books, sections |-> <<>>])
    /\ module_i' = module_i + 1
    /\ frame' = <<>>
    /\ UNCHANGED <<sword, metadata, calls, stderr, write_i>>
    /\ UNCHANGED <<loaderVars, parserVars>>
    /\ UNCHANGED program

\* extract_scripture returns; auxiliary["bibles"][meta["id"]] = content; next module
ExtractScriptureReturn ==
    /\ program = "extract_scriptures"
    /\ mpc = "book"
    /\ Frame.book_i > Len(Frame.books)
    /\ mpc' = "module"
    /\ auxiliary' = DictSet(auxiliary, Module.id,
                            [content |-> Module.description,
                             books |-> Frame.extracted_books, sections |-> <<>>])
    /\ module_i' = module_i + 1
    /\ frame' = <<>>
    /\ UNCHANGED <<sword, disk, metadata, calls, stderr, write_i>>
    /\ UNCHANGED <<loaderVars, parserVars>>
    /\ UNCHANGED program

\* after the loop over the registry: bibles.json is written
WriteMetadata ==
    /\ mpc = "module"
    /\ module_i > Len(Registry)
    /\ mpc' = "write"
    /\ disk' = Write(disk, "bibles.json", metadata[1])
    /\ write_i' = 1
    /\ UNCHANGED <<sword, module_i, metadata, auxiliary, frame, calls, stderr>>
    /\ UNCHANGED <<loaderVars, parserVars>>
    /\ UNCHANGED program

\* one iteration of `for bible_id, bible_content in auxiliary["bibles"].items()`
WriteAuxiliary ==
    /\ program = "extract_scriptures"
    /\ mpc = "write"
    /\ write_i <= Len(auxiliary)
    /\ disk' = Write(disk, "bibles_auxiliary/" \o auxiliary[write_i].key \o ".json",
                     auxiliary[write_i].value)
    /\ write_i' = write_i + 1
    /\ UNCHANGED <<mpc, sword, module_i, metadata, auxiliary, frame, calls, stderr>>
    /\ UNCHANGED <<loaderVars, parserVars>>
    /\ UNCHANGED program

\* the summary line; main returns
Summary ==
    /\ program = "extract_scriptures"
    /\ mpc = "write"
    /\ write_i > Len(auxiliary)
    /\ mpc' = "done"
    /\ UNCHANGED <<sword, disk, module_i, metadata, auxiliary, frame, calls, stderr, write_i>>
    /\ UNCHANGED <<loaderVars, parserVars>>
    /\ UNCHANGED program

\* the part of BOOKS a run of extract_bibles.py goes through
BibleBooks == <<Obad, Hag>>

\* extract_bibles.py: metadata["bibles"].append({...}); extract_bible is entered
BiblesAppendMetadata ==
    /\ program = "extract_bibles"
    /\ mpc = "append"
    /\ mpc' = "book"
    /\ metadata' = [metadata EXCEPT ![1].bibles =
                      Append(@, [id |-> Module.id, description |-> Module.description,
                                 weight |-> module_i])]
    /\ frame' = <<[books |-> BibleBooks, book_i |-> 1, extracted_books |-> <<>>,
                   ch |-> 1, chapters |-> <<>>]>>
    /\ UNCHANGED <<sword, disk, module_i, auxiliary, calls, stderr, write_i, program>>
    /\ UNCHANGED <<loaderVars, parserVars>>

\* extract_bibles.py: get_book is entered for the next row of BOOKS
BiblesGetBook ==
    /\ program = "extract_bibles"
    /\ mpc = "book"
    /\ Frame.book_i <= Len(Frame.books)
    /\ mpc' = "chapter"
    /\ frame' = <<[Frame EXCEPT !.ch = 1, !.chapters = <<>>]>>
    /\ UNCHANGED <<sword, disk, module_i, metadata, auxiliary, calls, stderr, write_i, program>>
    /\ UNCHANGED <<loaderVars, parserVars>>

\* extract_bibles.py: extract_bible returns; auxiliary["bibles"][meta["id"]] = content
ExtractBibleReturn ==
    /\ program = "extract_bibles"
    /\ mpc = "book"
    /\ Frame.book_i > Len(Frame.books)
    /\ mpc' = "module"
    /\ auxiliary' = DictSet(auxiliary, Module.id,
                            [content |-> Module.description,
                             books |-> Frame.extracted_books, sections |-> <<>>])
    /\ module_i' = module_i + 1
    /\ frame' = <<>>
    /\ UNCHANGED <<sword, disk, metadata, calls, stderr, write_i, program>>
    /\ UNCHANGED <<loaderVars, parserVars>>

\* extract_bibles.py: bibles_auxiliary.json is written, then the summary line
BiblesWriteAuxiliary ==
    /\ program = "extract_bibles"
    /\ mpc = "write"
    /\ mpc' = "done"
    /\ disk' = Write(disk, "bibles_auxiliary.json", [bibles |-> auxiliary])
    /\ UNCHANGED <<sword, module_i, metadata, auxiliary, frame, calls, stderr, write_i, program>>
    /\ UNCHANGED <<loaderVars, parserVars>>

-----------------------------------------------------------------------------

Init ==
    /\ files \in FileSystems
    /\ pc = "idle"
    /\ arg = None
    /\ stack = <<>>
    /\ heap = <<>>
    /\ retv = <<>>
    /\ gab = [i |-> 1, books |-> <<>>]
    /\ flat = <<>>
    /\ opened = <<>>
    /\ ParserIdle
    /\ MainIdle

Next ==
    \/ \E name \in CanonNames : Call(name)
    \/ NotFound
    \/ LoadPlain
    \/ LoadExtends
    \/ CopyParentBooks
    \/ MergeStep
    \/ MergeReturn
    \/ GetAllBooksCall
    \/ GetAllBooksStep
    \/ GetAllBooksReturn

Spec == Init /\ [][Next]_vars

\* the parser alone, about to be called on some output
ParseInit ==
    /\ files = FullCanons
    /\ pc = "idle"
    /\ arg = None
    /\ stack = <<>>
    /\ heap = <<>>
    /\ retv = <<>>
    /\ gab = [i |-> 1, books |-> <<>>]
    /\ flat = <<>>
    /\ opened = <<>>
    /\ ppc = "idle"
    /\ output \in ParserInputs
    /\ parts = <<>>
    /\ parts_i = 1
    /\ verses = <<>>
    /\ MainIdle

ParseNext ==
    \/ ParseCall
    \/ ParseStep
    \/ ParseReturn

ParseSpec == ParseInit /\ [][ParseNext]_vars

\* one run of main, with a canon directory, a SWORD library and the files of
\* an earlier run in the output directory
RunInit ==
    /\ files \in RunFileSystems
    /\ pc = "idle"
    /\ arg = None
    /\ stack = <<>>
    /\ heap = <<>>
    /\ retv = <<>>
    /\ gab = [i |-> 1, books |-> <<>>]
    /\ flat = <<>>
    /\ opened = <<>>
    /\ ParserIdle
    /\ mpc = "start"
    /\ sword \in SwordLibraries
    /\ disk = PriorDisk
    /\ module_i = 1
    /\ metadata = <<>>
    /\ auxiliary = <<>>
    /\ frame = <<>>
    /\ calls = <<>>
    /\ stderr = <<>>
    /\ write_i = 1
    /\ program \in {"extract_scriptures", "extract_bibles"}

RunNext ==
    \/ \E outcome \in {"completed", "FileNotFoundError", "TimeoutExpired"} : DiathekeCheck(outcome)
    \/ \E outcome \in Outcomes : ModuleCheck(outcome)
    \/ MainLoadVersification
    \/ NotFound
    \/ LoadPlain
    \/ LoadExtends
    \/ CopyParentBooks
    \/ MergeStep
    \/ MergeReturn
    \/ Unhandled
    \/ AppendMetadata
    \/ mpc = "extract" /\ GetAllBooksCall
    \/ GetAllBooksStep
    \/ GetAllBooksReturn
    \/ ExtractScriptureBooks
    \/ \E outcome \in Outcomes : CheckBookExists(outcome)
    \/ \E outcome \in Outcomes : GetChapter(outcome)
    \/ GetBookReturn
    \/ ExtractScriptureReturn
    \/ WriteMetadata
    \/ WriteAuxiliary
    \/ Summary
    \/ BiblesAppendMetadata
    \/ BiblesGetBook
    \/ ExtractBibleReturn
    \/ BiblesWriteAuxiliary

RunSpec == RunInit /\ [][RunNext]_vars

\* one step of a running load_versification call
LoaderStep ==
    \/ NotFound
    \/ LoadPlain
    \/ LoadExtends
    \/ CopyParentBooks
    \/ MergeStep
    \/ MergeReturn

\* a call that was started keeps executing: the interpreter runs the function
\* body to its return or to the exception
FairSpec == Spec /\ WF_vars(LoaderStep)

-----------------------------------------------------------------------------
(* Properties *)

\* the innermost frame is about to run one iteration of the splice loop
Splicing ==
    /\ pc = "loading"
    /\ Top.at = "merge"
    /\ Top.k <= Len(AdditionalBooks(Top.data))

\* w2 is w with x put at 1-based position p and nothing else moved
PlacedAt(w, w2, x, p) ==
    /\ Len(w2) = Len(w) + 1
    /\ p \in 1..Len(w2)
    /\ w2[p] = x
    /\ \A q \in 1..Len(w) : w2[IF q < p THEN q ELSE q + 1] = w[q]

\* C1: with `extends`, the working list starts as the parent's resolved books;
\* each additional book, in declared order, is put right after the first entry
\* of the working list whose id is its insert_after, or at the end when
\* insert_after is absent or matches no id; the result becomes `books`.
C1_SpliceAfterFirstAnchor ==
    [][ /\ (pc = "loading" /\ Top.at = "copy") =>
              LET f == stack'[Len(stack')] IN
              /\ f.at = "merge" /\ f.k = 1
              /\ heap'[f.books] = IF "books" \in DOMAIN Top.parent
                                  THEN heap[Top.parent.books] ELSE <<>>
        /\ Splicing =>
              LET w  == heap[Top.books]
                  w2 == heap'[Top.books]
                  f  == stack'[Len(stack')]
                  a  == AdditionalBooks(Top.data)[Top.k]
                  t  == Get(a, "insert_after", None)
                  anchored == /\ "insert_after" \in DOMAIN a
                              /\ \E i \in 1..Len(w) : w[i].id = t
              IN  /\ f.k = Top.k + 1 /\ f.books = Top.books
                  /\ IF anchored
                     THEN \E i \in 1..Len(w) :
                             /\ w[i].id = t
                             /\ \A j \in 1..(i - 1) : w[j].id # t
                             /\ PlacedAt(w, w2, a, i + 1)
                     ELSE PlacedAt(w, w2, a, Len(w) + 1)
        /\ (pc = "loading" /\ Top.at = "merge" /\ ~Splicing) =>
              IF Len(stack) = 1
              THEN /\ pc' = "loaded"
                   /\ heap'[retv'[1].books] = heap[Top.books]
              ELSE heap'[stack'[Len(stack')].parent.books] = heap[Top.books]
      ]_vars

\* C1 witness: in the parent, Tob went right after Neh and Jdt anchored on the
\* spliced-in Tob; in the child, Meqabyan went right after Esth and Sir, which
\* names no anchor, went to the end.
C1_Witness ==
    /\ pc = "loaded" /\ arg = "ethiopian"
    /\ files.catholic.additional_books = <<Tob, Jdt>>
    /\ AdditionalBooks(files.ethiopian) = <<Meqabyan, Sir>>
    /\ VBooks = <<Neh, Tob, Jdt, Esth, Meqabyan, Ruth, Heading, Twelve, Sir>>

\* some canon on the `extends` chain from name has no file
RECURSIVE ChainBroken(_)
ChainBroken(name) ==
    \/ name \notin DOMAIN files
    \/ /\ "extends" \in DOMAIN files[name]
       /\ ChainBroken(files[name].extends)

\* C2: the call ends in the not-found error exactly when the name or one of its
\* ancestors has no file, and then nothing is returned; no definition is
\* returned before the whole chain has been loaded.
C2_NotFoundReturnsNothing ==
    /\ pc = "raised" => ChainBroken(arg) /\ retv = <<>>
    /\ pc \in {"loaded", "flattening", "flattened"} => ~ChainBroken(arg) /\ Len(retv) = 1
    /\ pc = "loading" => retv = <<>>

\* C2 witness: the child's file exists, its grandparent's does not, and the call raised
C2_Witness ==
    /\ pc = "raised" /\ arg = "ethiopian"
    /\ "ethiopian" \in DOMAIN files /\ "catholic" \in DOMAIN files
    /\ "protestant" \notin DOMAIN files

\* C3: while a child is resolved, the list object that is its parent's `books`
\* keeps its length, order and entries, whatever is spliced; the files on disk
\* are never written.
C3_ParentBooksUnchanged ==
    [][ /\ files' = files
        /\ pc = "loading" =>
              \A n \in 1..Len(stack) :
                  ("parent" \in DOMAIN stack[n] /\ "books" \in DOMAIN stack[n].parent) =>
                      heap'[stack[n].parent.books] = heap[stack[n].parent.books]
      ]_vars

\* C3 witness: a child returned with two books spliced in; its parent's list
\* still holds exactly the parent's declared books
C3_Witness ==
    /\ pc = "loaded" /\ arg = "catholic"
    /\ Len(heap) = 2
    /\ heap[1] = files.protestant.books
    /\ retv[1].books = 2
    /\ Len(heap[2]) = Len(heap[1]) + 2

\* C4: the returned definition has the fields of the requested canon's own
\* file with their declared values, plus `books` when it extends a parent;
\* without `extends` it is the file's content, nothing added or altered.
C4_OwnFieldsPreserved ==
    pc \in {"loaded", "flattening", "flattened"} =>
        LET d == retv[1]
            y == files[arg]
        IN  /\ \A k \in DOMAIN y \ {"books"} : k \in DOMAIN d /\ d[k] = y[k]
            /\ IF "extends" \in DOMAIN y
               THEN DOMAIN d = DOMAIN y \cup {"books"}
               ELSE /\ DOMAIN d = DOMAIN y
                    /\ "books" \in DOMAIN y => heap[d.books] = y.books

\* C4 witness: a grandchild came back under its own name and parent link, its
\* declared `books` replaced by the merged list
C4_Witness ==
    /\ pc = "loaded" /\ arg = "ethiopian"
    /\ retv[1].name = "Ethiopian Orthodox"
    /\ retv[1].extends = "catholic"
    /\ "books" \in DOMAIN files.ethiopian
    /\ heap[retv[1].books] # files.ethiopian.books

-----------------------------------------------------------------------------
(* Properties of the flattened list *)

\* a is a subsequence of b: b's elements with some left out, order kept
RECURSIVE IsSubseq(_, _)
IsSubseq(a, b) ==
    IF a = <<>> THEN TRUE
    ELSE IF b = <<>> THEN FALSE
    ELSE IF Head(a) = Head(b) THEN IsSubseq(Tail(a), Tail(b))
    ELSE IsSubseq(a, Tail(b))

\* canon p is reached from canon c through one or more `extends`
RECURSIVE Ancestor(_, _)
Ancestor(p, c) ==
    /\ c \in DOMAIN files
    /\ "extends" \in DOMAIN files[c]
    /\ \/ files[c].extends = p
       \/ Ancestor(p, files[c].extends)

\* how many units an entry stands for in the flattened list
EmitCount(e) ==
    IF "merge_with" \in DOMAIN e THEN 0
    ELSE IF "sub_books" \in DOMAIN e THEN Len(e.sub_books)
    ELSE IF "chapters" \in DOMAIN e THEN 1
    ELSE 0

\* number of units standing for the entries before position q
RECURSIVE Offset(_, _)
Offset(R, q) == IF q <= 1 THEN 0 ELSE Offset(R, q - 1) + EmitCount(R[q - 1])

\* id of the j-th unit of an entry
UnitId(e, j) == IF "sub_books" \in DOMAIN e THEN e.sub_books[j].id ELSE e.id

\* get_all_books has just returned the list F for the resolved books R
Flattened == pc = "flattened"
F == gab.books
R == VBooks

\* the list object holding the resolved books of the requested canon's parent:
\* the last list allocated before the requested canon's own working list
ParentResolved == heap[Len(heap) - 1]

\* C5: the units of an ancestor's flattened list all appear, in the same
\* order, in the descendant's; every additional book that is not excluded is in
\* the descendant's flattened list, after its anchor (directly after it when no
\* later additional book names the same anchor), or after everything that was
\* there when it has no anchor in the list.
C5_ChildContainsParentInOrder ==
    /\ \A c \in DOMAIN flat : \A p \in DOMAIN flat :
           Ancestor(p, c) => IsSubseq(flat[p], flat[c])
    /\ (Flattened /\ "extends" \in DOMAIN files[arg]) =>
           LET adds == AdditionalBooks(files[arg]) IN
           \A k \in 1..Len(adds) :
               LET a == adds[k]
                   t == Get(a, "insert_after", None)
                   present == ParentResolved \o SubSeq(adds, 1, k - 1)
                   found == /\ "insert_after" \in DOMAIN a
                            /\ \E i \in 1..Len(present) : present[i].id = t
                   lastForAnchor ==
                       \A k2 \in (k + 1)..Len(adds) :
                           Get(adds[k2], "insert_after", None) # t
               IN  EmitCount(a) > 0 =>
                     \E q \in 1..Len(R) :
                        /\ R[q] = a
                        /\ F[Offset(R, q) + 1].id = UnitId(a, 1)
                        /\ found =>
                             \E i \in 1..(q - 1) :
                                 /\ R[i].id = t
                                 /\ lastForAnchor => i = q - 1
                        /\ ~found => q >= Len(ParentResolved) + k

\* C5 witness: the three canons of a depth-2 chain have been flattened; the
\* grandchild's list holds the base canon's units and the books added on the way
C5_Witness ==
    /\ Flattened /\ arg = "ethiopian"
    /\ {"protestant", "catholic", "ethiopian"} \subseteq DOMAIN flat
    /\ files.catholic.additional_books = <<Tob, Jdt>>
    /\ AdditionalBooks(files.ethiopian) = <<Enoch>>
    /\ Len(flat["protestant"]) > 0
    /\ [i \in 1..Len(flat["ethiopian"]) |-> flat["ethiopian"][i].id]
         = <<"Neh", "Tob", "Jdt", "1En", "Esth", "Ruth", "Hos", "Joel", "Amos">>

\* C6: an iteration of get_all_books over an entry with merge_with, or over a
\* non-composite entry without chapters, appends nothing; over a composite
\* entry it appends one unit per sub-book, carrying the sub-books' ids, and
\* none for the entry itself.
C6_NoUnitForMergedOrStructural ==
    [][ (pc = "flattening" /\ gab.i <= Len(VBooks)) =>
            LET e == VBooks[gab.i]
                new == SubSeq(gab'.books, Len(gab.books) + 1, Len(gab'.books))
            IN  /\ SubSeq(gab'.books, 1, Len(gab.books)) = gab.books
                /\ "merge_with" \in DOMAIN e => new = <<>>
                /\ ("sub_books" \notin DOMAIN e /\ "chapters" \notin DOMAIN e) => new = <<>>
                /\ ("sub_books" \in DOMAIN e /\ "merge_with" \notin DOMAIN e) =>
                       /\ Len(new) = Len(e.sub_books)
                       /\ \A j \in 1..Len(new) : new[j].id = e.sub_books[j].id
      ]_vars

\* C6 witness: a canon holding a merged entry, a structural entry and a
\* composite entry was flattened; none of the three ids is in the list, the
\* sub-books' ids are
C6_Witness ==
    /\ Flattened /\ arg = "catholic"
    /\ \E q \in 1..Len(R) : R[q] = EsthGr
    /\ \E q \in 1..Len(R) : R[q] = Heading
    /\ \E q \in 1..Len(R) : R[q] = Twelve
    /\ \A i \in 1..Len(F) : F[i].id \notin {"EsthGr", "Prophets", "Twelve"}
    /\ \E i \in 1..Len(F) : F[i].id = "Hos"

\* the entry at position q of R is composite and is flattened
Composite(q) == "sub_books" \in DOMAIN R[q] /\ "merge_with" \notin DOMAIN R[q]

\* C7 as stated: a sub-book's unit takes the sub-book's own testament when it
\* declares one and the parent entry's otherwise; its name is the sub-book's
\* name, or its id when it has none.
C7_SubBookTestamentOverrides ==
    Flattened =>
        \A q \in 1..Len(R) : Composite(q) =>
            \A j \in 1..Len(R[q].sub_books) :
                LET sub == R[q].sub_books[j]
                    u == F[Offset(R, q) + j]
                IN  /\ u.testament = Get(sub, "testament", Get(R[q], "testament", "OT"))
                    /\ u.name = Get(sub, "name", sub.id)

\* C7 amended: a sub-book's unit always takes the parent entry's testament (OT
\* when the parent entry declares none), whatever testament the sub-book
\* declares; its name is the sub-book's name, or its id when it has none.
C7_SubBookTakesParentTestament ==
    Flattened =>
        \A q \in 1..Len(R) : Composite(q) =>
            \A j \in 1..Len(R[q].sub_books) :
                LET sub == R[q].sub_books[j]
                    u == F[Offset(R, q) + j]
                IN  /\ u.testament = Get(R[q], "testament", "OT")
                    /\ u.name = Get(sub, "name", sub.id)

\* C7 witness: Meqabyan (testament DC) was flattened; its sub-book 2Meq
\* declares OT and no name, and its unit is 2Meq / "2Meq" / DC
C7_Witness ==
    /\ Flattened /\ arg = "ethiopian"
    /\ \E q \in 1..Len(R) :
          /\ R[q] = Meqabyan
          /\ F[Offset(R, q) + 2] =
                [id |-> "2Meq", name |-> "2Meq", chapters |-> 21, testament |-> "DC"]

\* C8: the flattened list is the entries' units laid out in the order of the
\* resolved books, a composite entry's units side by side in sub-book order at
\* the entry's place; so the first and last entries that stand for units supply
\* the first and last units.
C8_OrderPreserved ==
    Flattened =>
        LET emitting == {q \in 1..Len(R) : EmitCount(R[q]) > 0} IN
        /\ Len(F) = Offset(R, Len(R) + 1)
        /\ \A q \in emitting : \A j \in 1..EmitCount(R[q]) :
               F[Offset(R, q) + j].id = UnitId(R[q], j)
        /\ emitting # {} =>
               LET first == Min(emitting)
                   last == CHOOSE q \in emitting : \A q2 \in emitting : q2 <= q
               IN  /\ F[1].id = UnitId(R[first], 1)
                   /\ F[Len(F)].id = UnitId(R[last], EmitCount(R[last]))

\* C8 witness: a list with simple, skipped and composite entries was flattened
\* and the composite's three units sit together between their neighbours
C8_Witness ==
    /\ Flattened /\ arg = "catholic"
    /\ R = <<Neh, Esth, Ruth, Heading, Twelve, Sir, Bar>>
    /\ [i \in 1..Len(F) |-> F[i].id]
         = <<"Neh", "Esth", "Ruth", "Hos", "Joel", "Amos", "Sir", "Bar">>

Testaments == {"OT", "NT", "DC"}

C10_Protestant66 ==
    (Flattened /\ files[arg] = ProtestantYaml) =>
        /\ Len(F) = 66
        /\ \A i \in 1..Len(BOOKS) :
              /\ F[i].id = BOOKS[i][1]
              /\ F[i].name = BOOKS[i][2]
              /\ F[i].chapters = BOOKS[i][4]
        /\ F[1] = [id |-> "Gen", name |-> "Genesis", chapters |-> 50, testament |-> "OT"]
        /\ F[Len(F)] = [id |-> "Rev", name |-> "Revelation", chapters |-> 22,
                        testament |-> "NT"]

\* C10 witness: the Protestant canon itself has been loaded and flattened
C10_Witness ==
    /\ Flattened /\ arg = "protestant"
    /\ files.protestant = ProtestantYaml
    /\ Len(R) = 66
    /\ Len(F) = 66

-----------------------------------------------------------------------------
(* Properties of same-anchor splicing and of ids *)

\* C18: of two additional books of one child that name the same anchor, both
\* found in the list, the later declared one ends up nearer the anchor: the
\* merged list holds anchor, later one, earlier one in that order, and the last
\* declared for an anchor sits directly after an entry carrying the anchor id.
C18_SameAnchorReversed ==
    (pc = "loaded" /\ "extends" \in DOMAIN files[arg]) =>
        LET adds == AdditionalBooks(files[arg])
            anchor(k) == Get(adds[k], "insert_after", None)
            present(k) == ParentResolved \o SubSeq(adds, 1, k - 1)
            found(k) == /\ "insert_after" \in DOMAIN adds[k]
                        /\ \E i \in 1..Len(present(k)) : present(k)[i].id = anchor(k)
        IN  \A k1 \in 1..Len(adds) : \A k2 \in (k1 + 1)..Len(adds) :
                (found(k1) /\ anchor(k2) = anchor(k1)) =>
                    /\ \E i \in 1..Len(R) : \E q2 \in (i + 1)..Len(R) :
                       \E q1 \in (q2 + 1)..Len(R) :
                           /\ R[i].id = anchor(k1)
                           /\ R[q2] = adds[k2]
                           /\ R[q1] = adds[k1]
                    /\ (\A k3 \in (k2 + 1)..Len(adds) : anchor(k3) # anchor(k1)) =>
                           \E i \in 1..(Len(R) - 1) :
                               R[i].id = anchor(k1) /\ R[i + 1] = adds[k2]

\* C18 witness: Tob and Wis both name Neh; Wis, declared last, is next to Neh
C18_Witness ==
    /\ pc = "loaded" /\ arg = "catholic"
    /\ files.catholic.additional_books = <<Tob, Wis>>
    /\ R = <<Neh, Wis, Tob, Esth, Ruth, Heading, Twelve>>

\* the entries a canon's chain declares: the base canon's books followed by the
\* additional books of each descendant down to the canon itself
RECURSIVE DeclaredEntries(_)
DeclaredEntries(name) ==
    IF "extends" \in DOMAIN files[name]
    THEN DeclaredEntries(files[name].extends) \o AdditionalBooks(files[name])
    ELSE Get(files[name], "books", <<>>)

\* the ids of the units the declared entries stand for, one per unit
RECURSIVE DeclaredUnitIds(_)
DeclaredUnitIds(entries) ==
    IF entries = <<>> THEN <<>>
    ELSE [j \in 1..EmitCount(Head(entries)) |-> UnitId(Head(entries), j)]
           \o DeclaredUnitIds(Tail(entries))

NoRepeat(ids) == \A i \in 1..Len(ids) : \A j \in 1..Len(ids) : ids[i] = ids[j] => i = j

FlatIds == [i \in 1..Len(F) |-> F[i].id]

\* C20 as stated: no two units of a flattened list share an id.
C20_IdsUnique == Flattened => NoRepeat(FlatIds)

\* C20 amended: when the units declared along the chain (base books, additional
\* books, sub-books, those skipped left out) have pairwise different ids, no two
\* units of the flattened list share an id.
C20_IdsUniqueWhenDeclaredUnique ==
    (Flattened /\ NoRepeat(DeclaredUnitIds(DeclaredEntries(arg)))) => NoRepeat(FlatIds)

\* C20 witness: a child with two distinct additional books and a composite
\* entry in its base was flattened to eight units with eight ids
C20_Witness ==
    /\ Flattened /\ arg = "catholic"
    /\ files.catholic.additional_books = <<Tob, Jdt>>
    /\ NoRepeat(DeclaredUnitIds(DeclaredEntries(arg)))
    /\ FlatIds = <<"Neh", "Tob", "Jdt", "Esth", "Ruth", "Hos", "Joel", "Amos">>


(***************************************************************************)
(* Termination and number of loads                                         *)
(***************************************************************************)

\* the extends chain from `name` up to the canon without `extends`
RECURSIVE ChainNames(_)
ChainNames(name) ==
    IF "extends" \in DOMAIN files[name]
    THEN <<name>> \o ChainNames(files[name].extends)
    ELSE <<name>>

C19_ChainLoadedOnce ==
    /\ NoRepeat(opened)
    /\ (pc = "loaded" /\ ~ChainBroken(arg)) =>
           /\ opened = ChainNames(arg)
           /\ Len(opened) = Cardinality({a \in CanonNames : Ancestor(a, arg)}) + 1
    /\ Splicing =>
           /\ \A a \in CanonNames : Ancestor(a, Top.name) =>
                  /\ \E i \in 1..Len(opened) : opened[i] = a
                  /\ \A j \in 1..Len(stack) : stack[j].name # a
           /\ \A j \in 1..Len(stack) - 1 : Ancestor(Top.name, stack[j].name)

\* C19: when every canon of the extends chain from the requested name exists,
\* the call returns; it has then opened each canon of the chain exactly once,
\* chain depth + 1 files in all, from the requested canon up to the root; and
\* whenever a canon's additional books are being spliced, all its ancestors
\* have been opened and their calls have already returned.
C19_TerminatesLoadingChainOnce ==
    /\ [] C19_ChainLoadedOnce
    /\ (pc = "loading" /\ ~ChainBroken(arg)) ~> (pc = "loaded")

\* ethiopian has been resolved through catholic and protestant: depth 2, 3 loads
C19_Witness ==
    /\ pc = "loaded"
    /\ arg = "ethiopian"
    /\ opened = <<"ethiopian", "catholic", "protestant">>


(***************************************************************************)
(* Properties of parse_diatheke_output                                     *)
(***************************************************************************)

\* the output is blank, or nothing but a parenthesised module name
EmptyOrAttributionOnly(out) ==
    LET t == Strip(out)
    IN  \/ t = ""
        \/ /\ Len(t) >= 3
           /\ Ch(t, 1) = "("
           /\ Ch(t, Len(t)) = ")"
           /\ \A p \in 2..Len(t) - 1 : Ch(t, p) \notin {"(", ")"}

\* C11: for an output that is empty, only whitespace, or only a module
\* attribution such as "(KJV)", with or without newlines around it, the parser
\* runs no loop iteration, goes straight to its return, and returns the empty list.
C11_EmptyInputNoVerses ==
    (ppc # "idle" /\ EmptyOrAttributionOnly(output)) =>
        /\ ppc \in {"parsing", "returned"}
        /\ verses = <<>>
        /\ parts_i >= Len(parts)
        /\ ppc = "parsing" => ENABLED ParseReturn
        /\ parse_diatheke_output(output) = <<>>

\* the parser has returned from an output holding only an attribution after blank lines
C11_Witness ==
    /\ ppc = "returned"
    /\ output = "\n\n(KJV)\n"
    /\ verses = <<>>


\* the k-th marker found by the split, and the text up to the next marker
Marker(k) == parts[2 * k]
Body(k) == parts[2 * k + 1]

\* markers whose loop iteration has run
MarkersDone == (parts_i - 1) \div 2

\* the digits after the last colon of a marker, as a number
NumberAfterFinalColon(marker) ==
    LET t == Strip(marker)
        colon == Max({p \in 1..Len(t) : Ch(t, p) = ":"})
    IN  int(SubSeq(t, colon + 1, Len(t)))

\* the markers among the first n whose verse the parser retains, in input order
RECURSIVE Kept(_)
Kept(n) ==
    IF n = 0 THEN <<>>
    ELSE Kept(n - 1) \o (IF Strip(Body(n)) # "" /\ ~is_placeholder_text(Body(n))
                         THEN <<n>> ELSE <<>>)

\* first position >= from at which sub occurs in s, 0 if none
Find(s, sub, from) ==
    LET at == {p \in from..Len(s) - Len(sub) + 1 : SubSeq(s, p, p + Len(sub) - 1) = sub}
    IN  IF at = {} THEN 0 ELSE Min(at)

\* the first n markers occur in s one after the other from position `from` on
RECURSIVE OccurInOrder(_, _, _, _)
OccurInOrder(s, k, n, from) ==
    \/ k > n
    \/ /\ Find(s, Marker(k), from) > 0
       /\ OccurInOrder(s, k + 1, n, Find(s, Marker(k), from) + Len(Marker(k)))

\* C12: at every point of the loop and at the return, the verses emitted so far
\* are exactly the retained ones among the markers processed, in the order the
\* markers occur in the input: as many, none merged, dropped for repeating a
\* number, or moved; each carries the number written after the last colon of
\* its own marker and the normalised text of its own body.
C12_VersesInMarkerOrder ==
    (ppc \in {"parsing", "returned"}) =>
        LET kept == Kept(MarkersDone)
        IN  /\ OccurInOrder(output, 1, (Len(parts) - 1) \div 2, 1)
            /\ Len(verses) = Len(kept)
            /\ \A j \in 1..Len(kept) :
                   /\ verses[j].number = NumberAfterFinalColon(Marker(kept[j]))
                   /\ verses[j].text = JoinSplit(Body(kept[j]))

\* verse 10 came before verse 3: emitted as 10 then 3, nothing in between
C12_Witness ==
    /\ ppc = "returned"
    /\ output = "1 John 2:10:In the beginning\nGen 2:3: a \n\tb"
    /\ verses = <<[number |-> 10, text |-> "In the beginning"], [number |-> 3, text |-> "a b"]>>

\* the same verse number twice: both are kept
C12_WitnessRepeated ==
    /\ ppc = "returned"
    /\ Len(verses) = 2
    /\ verses[1].number = 3
    /\ verses[2].number = 3


\* the whitespace-separated words of s from position p on
RECURSIVE Words(_, _)
Words(s, p) ==
    LET starts == {a \in p..Len(s) : Ch(s, a) \notin Whitespace}
    IN  IF starts = {} THEN <<>>
        ELSE LET a == Min(starts)
                 stops == {b \in a..Len(s) : Ch(s, b) \in Whitespace}
                 b == IF stops = {} THEN Len(s) + 1 ELSE Min(stops)
             IN  <<SubSeq(s, a, b - 1)>> \o Words(s, b)

\* chapter:verse, with or without a colon after it
IsChapterVerse(w) ==
    LET last == IF Ch(w, Len(w)) = ":" THEN Len(w) - 1 ELSE Len(w)
    IN  \E c \in 2..last - 1 :
            /\ Ch(w, c) = ":"
            /\ AllIn(w, 1, c - 1, Digit)
            /\ AllIn(w, c + 1, last, Digit)

\* nothing but a verse reference: an optional ordinal 1-4 (the Roman ordinals
\* are words), the words of a book name, and chapter:verse
IsReferenceOnly(t) ==
    LET w == Words(t, 1)
        n == Len(w)
        alphabetic(a, b) == \A k \in a..b : AllIn(w[k], 1, Len(w[k]), Alpha)
    IN  /\ n >= 2
        /\ IsChapterVerse(w[n])
        /\ \/ alphabetic(1, n - 1)
           \/ n >= 3 /\ w[1] \in {"1", "2", "3", "4"} /\ alphabetic(2, n - 1)

\* a body that stands for a missing verse
IsPlaceholderBody(body) ==
    Len(Strip(body)) < 5 \/ IsReferenceOnly(Strip(body))

\* the markers among the first n whose body is not a placeholder, in input order
RECURSIVE WithContent(_)
WithContent(n) ==
    IF n = 0 THEN <<>>
    ELSE WithContent(n - 1) \o (IF IsPlaceholderBody(Body(n)) THEN <<>> ELSE <<n>>)

\* C13: of the markers the split finds, exactly those whose trimmed body has
\* at least 5 characters and is not a bare verse reference give a verse: every
\* placeholder body is dropped, every other body is emitted once (with its
\* whitespace normalised), and the filter decides as that description does.
C13_PlaceholdersDropped ==
    (ppc \in {"parsing", "returned"}) =>
        LET good == WithContent(MarkersDone)
        IN  /\ \A k \in 1..(Len(parts) - 1) \div 2 :
                   is_placeholder_text(Body(k)) <=> IsPlaceholderBody(Body(k))
            /\ Len(verses) = Len(good)
            /\ \A j \in 1..Len(good) :
                   /\ verses[j].text = JoinSplit(Body(good[j]))
                   /\ verses[j].number = NumberAfterFinalColon(Marker(good[j]))

\* the body of 2:10 is only a reference and is dropped; 2:3 is emitted
C13_Witness ==
    /\ ppc = "returned"
    /\ output = "1 John 2:10:II Chronicles 19:2:\nGen 2:3: In the beginning\n(KJV)"
    /\ verses = <<[number |-> 3, text |-> "In the beginning"]>>


(***************************************************************************)
(* Properties of a run of main                                             *)
(***************************************************************************)


\* run_diatheke printed a warning or error line for this lookup
Failed(module, reference) ==
    \E k \in 1..Len(stderr) : stderr[k].module = module /\ stderr[k].reference = reference

\* what the module holds for a reference, and the verses in it
Held(m, reference) == Diatheke(sword, m.module, reference)
HeldVerses(m, book, ch) == parse_diatheke_output(Held(m, book.name \o " " \o str(ch)))

\* the module is installed and its canon definition chain is complete
Installed(m) == Strip(Held(m, "Gen 1:1")) # ""
Extractable(m) == Installed(m) /\ ~ChainBroken(m.versification)

\* the content document of module m built in this run, as <<document>>, or <<>>
Document(m) ==
    LET at == {k \in 1..Len(auxiliary) : auxiliary[k].key = m.id}
    IN  IF at = {} THEN <<>> ELSE <<auxiliary[CHOOSE k \in at : TRUE].value>>

\* chapter ch of the book is in the document with exactly these verses
HasChapter(document, book, ch, vs) ==
    \E b \in 1..Len(document.books) :
        /\ document.books[b].id = book.id
        /\ \E c \in 1..Len(document.books[b].chapters) :
              document.books[b].chapters[c] = [number |-> ch, verses |-> vs]

\* C14 as stated: an invocation that times out or fails to run is made once
\* and never again, it does not end the run, and at the end of the run every
\* chapter a module holds is in that module's document unless the lookup of
\* that very chapter failed.
C14_OnlyFailedReferenceLost ==
    /\ NoRepeat(calls)
    /\ (stderr # <<>> /\ files = ShortCanons) => mpc # "crashed"
    /\ (program = "extract_scriptures" /\ mpc = "done" /\ files = ShortCanons) =>
          \A k \in 1..Len(Registry) :
              LET m == Registry[k]
                  units == flat[m.versification]
              IN  Installed(m) =>
                    \A u \in 1..Len(units) : \A ch \in 1..units[u].chapters :
                        ( /\ check_book_exists(m.module, Held(m, units[u].name \o " 1:1"))
                          /\ HeldVerses(m, units[u], ch) # <<>>
                          /\ ~Failed(m.module, units[u].name \o " " \o str(ch)) ) =>
                            /\ Document(m) # <<>>
                            /\ HasChapter(Document(m)[1], units[u], ch,
                                          HeldVerses(m, units[u], ch))

\* what the code does instead: the chapter is also lost when the failed lookup
\* was the existence probe of its book or the availability probe of its module
FailureLossByScope ==
    /\ NoRepeat(calls)
    /\ (stderr # <<>> /\ files = ShortCanons) => mpc # "crashed"
    /\ (program = "extract_scriptures" /\ mpc = "done" /\ files = ShortCanons) =>
          \A k \in 1..Len(Registry) :
              LET m == Registry[k]
                  units == flat[m.versification]
              IN  (Installed(m) /\ ~Failed(m.module, "Gen 1:1")) =>
                    /\ Document(m) # <<>>
                    /\ \A u \in 1..Len(units) : \A ch \in 1..units[u].chapters :
                        ( /\ check_book_exists(m.module, Held(m, units[u].name \o " 1:1"))
                          /\ HeldVerses(m, units[u], ch) # <<>>
                          /\ ~Failed(m.module, units[u].name \o " 1:1")
                          /\ ~Failed(m.module, units[u].name \o " " \o str(ch)) ) =>
                            HasChapter(Document(m)[1], units[u], ch,
                                       HeldVerses(m, units[u], ch))


\* the verses the lookup of a chapter gave in this run
Yielded(m, book, ch) ==
    IF Failed(m.module, book.name \o " " \o str(ch)) THEN <<>> ELSE HeldVerses(m, book, ch)

\* the existence probe of a book succeeded in this run
Probed(m, book) ==
    /\ ~Failed(m.module, book.name \o " 1:1")
    /\ check_book_exists(m.module, Held(m, book.name \o " 1:1"))

\* chapters 1..n of a book whose lookup gave verses, in chapter order
RECURSIVE ChaptersWithVerses(_, _, _)
ChaptersWithVerses(m, book, n) ==
    IF n = 0 THEN <<>>
    ELSE ChaptersWithVerses(m, book, n - 1)
           \o (IF Yielded(m, book, n) # <<>>
               THEN <<[number |-> n, verses |-> Yielded(m, book, n)]>> ELSE <<>>)

\* the first n units of the canon that are in the module with some chapter
\* holding verses, in canon order
RECURSIVE BooksWithChapters(_, _, _)
BooksWithChapters(m, units, n) ==
    IF n = 0 THEN <<>>
    ELSE BooksWithChapters(m, units, n - 1)
           \o (IF Probed(m, units[n]) /\ ChaptersWithVerses(m, units[n], units[n].chapters) # <<>>
               THEN <<[id |-> units[n].id, name |-> units[n].name,
                       testament |-> units[n].testament,
                       chapters |-> ChaptersWithVerses(m, units[n], units[n].chapters)]>>
               ELSE <<>>)

\* every chapter has a verse, every book a chapter; chapter numbers ascend and
\* the books are in the order of the canon's units
WellFormedBooks(books, units) ==
    /\ \A b \in 1..Len(books) :
          /\ books[b].chapters # <<>>
          /\ \A c \in 1..Len(books[b].chapters) :
                /\ books[b].chapters[c].verses # <<>>
                /\ c > 1 => books[b].chapters[c - 1].number < books[b].chapters[c].number
    /\ IsSubseq([b \in 1..Len(books) |-> books[b].id], [u \in 1..Len(units) |-> units[u].id])

\* C15: the books being collected by extract_scripture, every content
\* document it has returned and every content document written hold only
\* chapters with at least one verse and books with at least one chapter, in
\* canon order; between two modules and at the end of the run, a returned
\* document holds exactly the units found in the module with the chapters
\* whose lookup gave verses, nothing else left out.
C15_NoEmptyChapterOrBook ==
    program = "extract_scriptures" =>
    /\ frame # <<>> => WellFormedBooks(Frame.extracted_books, Frame.books)
    /\ \A k \in 1..Len(Registry) :
          LET m == Registry[k]
              path == "bibles_auxiliary/" \o m.id \o ".json"
          IN  /\ Document(m) # <<>> =>
                    /\ WellFormedBooks(Document(m)[1].books, flat[m.versification])
                    /\ mpc \in {"module", "done", "crashed"} =>
                          Document(m)[1].books =
                             BooksWithChapters(m, flat[m.versification],
                                               Len(flat[m.versification]))
              /\ (path \in DOMAIN disk /\ disk[path] # PriorDocument) =>
                    /\ Document(m) # <<>>
                    /\ disk[path] = Document(m)[1]

\* KJV has been extracted from a complete library: Haggai keeps chapter 1 only
\* (chapter 2 gave no verse); ASV: Obadiah is not in the module, Haggai keeps
\* chapter 2 only
C15_Witness ==
    /\ program = "extract_scriptures"
    /\ mpc = "done"
    /\ stderr = <<>>
    /\ [b \in 1..Len(Document(Registry[1])[1].books) |->
           <<Document(Registry[1])[1].books[b].id,
             [c \in 1..Len(Document(Registry[1])[1].books[b].chapters) |->
                 Document(Registry[1])[1].books[b].chapters[c].number]>>]
         = << <<"Obad", <<1>> >>, <<"Hag", <<1>> >> >>
    /\ [b \in 1..Len(Document(Registry[3])[1].books) |->
           <<Document(Registry[3])[1].books[b].id,
             [c \in 1..Len(Document(Registry[3])[1].books[b].chapters) |->
                 Document(Registry[3])[1].books[b].chapters[c].number]>>]
         = << <<"Hag", <<2>> >> >>


\* the content document of module m is in the output directory, written in this run
Written(m) ==
    LET path == "bibles_auxiliary/" \o m.id \o ".json"
    IN  /\ path \in DOMAIN disk
        /\ disk[path] # PriorDocument
        /\ disk[path].content = m.description

\* the module is listed in the metadata document written in this run
Listed(m) ==
    /\ disk["bibles.json"] # PriorDocument
    /\ \E b \in 1..Len(disk["bibles.json"].bibles) : disk["bibles.json"].bibles[b].id = m.id

\* C16 as stated: when a run in which no lookup failed has met the not-found
\* error of one module's canon definition and has ended, every installed
\* module whose own canon definition chain is complete has its content
\* document written and is listed in the written metadata document.
C16_OtherModulesStillWritten ==
    (program = "extract_scriptures" /\ pc = "raised" /\ stderr = <<>>
       /\ mpc \in {"crashed", "done"}) =>
        \A k \in 1..Len(Registry) :
            Extractable(Registry[k]) => Written(Registry[k]) /\ Listed(Registry[k])

\* C17: a file of the output directory changes only in the writing phase,
\* which starts when the loop over the registry has passed the last module
\* and no extraction is running; until then, and in every run that ended by
\* exit or by an uncaught error, the directory holds exactly the files the
\* earlier run left.
C17_WrittenOnlyAfterLastModule ==
    /\ [](mpc \notin {"write", "done"} => disk = PriorDisk)
    /\ [][disk' # disk =>
             /\ module_i > Len(Registry)
             /\ frame = <<>>
             /\ mpc \in {"module", "write"}
             /\ mpc' \in {"write", "done"}]_vars

\* the run died on DRC's missing canon definition after KJV had been
\* extracted: nothing of the earlier run's files has changed
C17_Witness ==
    /\ program = "extract_scriptures"
    /\ mpc = "crashed"
    /\ pc = "raised"
    /\ Document(Registry[1]) # <<>>
    /\ disk = PriorDisk

\* a complete run has replaced bibles.json and written one document per
\* extracted module
C17_WitnessWritten ==
    /\ program = "extract_scriptures"
    /\ mpc = "done"
    /\ disk["bibles.json"] = metadata[1]
    /\ \A k \in 1..Len(Registry) : Written(Registry[k])
    /\ disk["bibles_auxiliary/vulgate.json"] = PriorDocument


\* a complete run of extract_bibles.py has replaced bibles.json and
\* bibles_auxiliary.json and nothing else
C17_WitnessBibles ==
    /\ program = "extract_bibles"
    /\ mpc = "done"
    /\ disk["bibles.json"] = metadata[1]
    /\ disk["bibles_auxiliary.json"] = [bibles |-> auxiliary]
    /\ Len(auxiliary) = 2
    /\ disk["bibles_auxiliary/kjv.json"] = PriorDocument



(***************************************************************************)
(* Hardened parser against baseline parser                                 *)
(***************************************************************************)

\* what the parser of extract_bibles.py returns for the same raw input
Baseline == bibles_parse_diatheke_output(output)

\* the markers among the first n whose trimmed body is not empty, in input order
RECURSIVE WithText(_)
WithText(n) ==
    IF n = 0 THEN <<>>
    ELSE WithText(n - 1) \o (IF Strip(Body(n)) = "" THEN <<>> ELSE <<n>>)

\* the verses of `base` whose marker, given by `src` position by position, has
\* a body that is not a placeholder
RECURSIVE WithoutPlaceholders(_, _)
WithoutPlaceholders(base, src) ==
    IF base = <<>> THEN <<>>
    ELSE (IF IsPlaceholderBody(Body(Head(src))) THEN <<>> ELSE <<Head(base)>>)
           \o WithoutPlaceholders(Tail(base), Tail(src))

\* C21: for every raw input, the baseline parser emits one verse per marker
\* with a non-empty trimmed body, and what the hardened parser has returned is
\* that list with exactly the verses whose trimmed body is a placeholder taken
\* out: a subsequence of the baseline list in the same order, and the same
\* list when no body is a placeholder.
C21_HardenedIsFilteredBaseline ==
    (ppc = "returned") =>
        LET src == WithText((Len(parts) - 1) \div 2)
            base == Baseline
        IN  /\ Len(base) = Len(src)
            /\ verses = WithoutPlaceholders(base, src)
            /\ IsSubseq(verses, base)
            /\ (\A j \in 1..Len(src) : ~IsPlaceholderBody(Body(src[j]))) =>
                  verses = base

\* the baseline parser emits two verses, the first with a body that is only a
\* reference; the hardened parser has returned the second alone
C21_Witness ==
    /\ ppc = "returned"
    /\ Len(Baseline) = 2
    /\ IsReferenceOnly(Baseline[1].text)
    /\ verses = <<Baseline[2]>>

\* no placeholder among two bodies: both parsers give the same two verses
C21_WitnessIdentical ==
    /\ ppc = "returned"
    /\ Len(verses) = 2
    /\ verses = Baseline



(***************************************************************************)
(* Metadata document against content documents                             *)
(***************************************************************************)

\* the availability lookup of the module gave text in this run
Available(m) == Installed(m) /\ ~Failed(m.module, "Gen 1:1")

\* the ids listed in the metadata, and the ids that have a content document
MetadataIds == {metadata[1].bibles[b].id : b \in 1..Len(metadata[1].bibles)}
ContentIds == {auxiliary[k].key : k \in 1..Len(auxiliary)}

\* the registry positions 1..n of the available modules, ascending
RECURSIVE AvailablePositions(_)
AvailablePositions(n) ==
    IF n = 0 THEN <<>>
    ELSE AvailablePositions(n - 1) \o (IF Available(Registry[n]) THEN <<n>> ELSE <<>>)

\* the loop over the registry has ended, or the files are being or have been written
AtWriting == mpc \in {"write", "done"} \/ (mpc = "module" /\ module_i > Len(Registry))

\* C22: from the end of the loop over the registry to the end of the run, the
\* ids listed in the metadata are the ids that have a content document, one
\* each, and they are the ids of the modules whose availability lookup gave
\* text; the metadata entries stand in registry order, each with the 1-based
\* registry position of its module as weight, so the weights ascend strictly;
\* the files written hold these documents. A step that skips a module changes
\* neither document nor anything of the canon loader, and the loader works
\* only for a module whose availability lookup gave text.
C22_MetadataMatchesContent ==
    /\ [](AtWriting =>
            LET pos == AvailablePositions(Len(Registry))
                bibles == metadata[1].bibles
            IN  /\ MetadataIds = ContentIds
                /\ MetadataIds = {Registry[k].id : k \in {n \in 1..Len(Registry) : Available(Registry[n])}}
                /\ Len(auxiliary) = Cardinality(ContentIds)
                /\ Len(bibles) = Len(pos)
                /\ \A b \in 1..Len(bibles) :
                       /\ bibles[b].id = Registry[pos[b]].id
                       /\ bibles[b].weight = pos[b]
                       /\ b > 1 => bibles[b - 1].weight < bibles[b].weight
                /\ mpc \in {"write", "done"} => disk["bibles.json"] = metadata[1]
                /\ (mpc = "done" /\ program = "extract_scriptures") =>
                       \A k \in 1..Len(auxiliary) :
                           disk["bibles_auxiliary/" \o auxiliary[k].key \o ".json"]
                             = auxiliary[k].value
                /\ (mpc = "done" /\ program = "extract_bibles") =>
                       disk["bibles_auxiliary.json"] = [bibles |-> auxiliary])
    /\ [][(mpc = "module" /\ module_i' = module_i + 1) =>
             /\ \E k \in 1..Len(Registry) : k = module_i /\ ~Available(Registry[k])'
             /\ UNCHANGED <<metadata, auxiliary, loaderVars>>]_vars
    /\ [][loaderVars' # loaderVars =>
             /\ mpc \in {"load", "loading", "extract"}
             /\ Available(Module)]_vars

\* DRC is not installed: the written metadata lists kjv with weight 1 and asv
\* with weight 3, and the content documents are those of kjv and asv
C22_Witness ==
    /\ program = "extract_scriptures"
    /\ mpc = "done"
    /\ stderr = <<>>
    /\ [b \in 1..Len(disk["bibles.json"].bibles) |->
           <<disk["bibles.json"].bibles[b].id, disk["bibles.json"].bibles[b].weight>>]
         = << <<"kjv", 1>>, <<"asv", 3>> >>
    /\ ContentIds = {"kjv", "asv"}
    /\ Written(Registry[1]) /\ ~Written(Registry[2]) /\ Written(Registry[3])

\* the availability lookup of KJV timed out: kjv is in neither document
C22_WitnessProbeFailed ==
    /\ mpc = "done"
    /\ Failed("KJV", "Gen 1:1")
    /\ "kjv" \notin MetadataIds \cup ContentIds
    /\ MetadataIds # {}

====
